---- MODULE Spec2Model ----
(***************************************************************************)
(* A model of the glueson evaluator (index.ts, the version with the lazy   *)
(* resolver, the key-sorted hasher, `env` and `temporary-file`).           *)
(*                                                                         *)
(* Values.  A JavaScript value is a record tagged by `t`:                  *)
(*   atoms   [t |-> "undef"|"null"|"bool"|"num"|"str", s |-> text]         *)
(*   arrays  [t |-> "arr", items |-> sequence of values]                   *)
(*   objects [t |-> "obj", fields |-> sequence of <<key, value>>]          *)
(* A text (a string's content, a number's literal, an object key) is a     *)
(* sequence of symbols.  The punctuation of JSON, the space, the dot and   *)
(* the dollar are symbols of their own; every other symbol stands for a    *)
(* run of ordinary characters ("echo", "_glueson", "1").  The fields of an *)
(* object are kept in insertion order, as Object.entries lists them.       *)
(*                                                                         *)
(* Tasks.  Every call of an async function is a task (a promise): it runs  *)
(* from one `await` to the next in one step.                               *)
(***************************************************************************)
EXTENDS Naturals, Sequences, FiniteSets, TLC

(***************************************************************************)
(* Values                                                                  *)
(***************************************************************************)
Undef == [t |-> "undef", s |-> <<>>]
Null == [t |-> "null", s |-> <<"null">>]
True == [t |-> "bool", s |-> <<"true">>]
False == [t |-> "bool", s |-> <<"false">>]
Num(n) == [t |-> "num", s |-> <<n>>]
Str(w) == [t |-> "str", s |-> <<w>>]
Text(txt) == [t |-> "str", s |-> txt]
Arr(xs) == [t |-> "arr", items |-> xs]
Obj(fs) == [t |-> "obj", fields |-> fs]
F(k, v) == <<(<<k>>), v>>

\* The symbols that are number literals.
Digits == {"0", "1", "2"}

\* typeof value
TypeOf(v) ==
    CASE v.t = "undef" -> "undefined"
      [] v.t = "bool" -> "boolean"
      [] v.t = "num" -> "number"
      [] v.t = "str" -> "string"
      [] v.t = "fn" -> "function"
      [] OTHER -> "object"

\* key in object, for the keys of the mapping itself (the paths of the get
\* expressions here name no other)
HasKey(v, k) == v.t = "obj" /\ \E i \in 1..Len(v.fields) : v.fields[i][1] = k

\* object[key]: the value of the field, undefined when absent
GetKey(v, k) ==
    IF HasKey(v, k)
    THEN v.fields[CHOOSE i \in 1..Len(v.fields) : v.fields[i][1] = k][2]
    ELSE Undef

\* The decimal index a symbol denotes, 0 when it denotes none.
IndexOf(sym) == CASE sym = "0" -> 1 [] sym = "1" -> 2 [] sym = "2" -> 3 [] OTHER -> 0

\* value[property] for a value whose typeof is "object" and that is not null
Member(v, p) ==
    IF v.t = "obj" THEN GetKey(v, p)
    ELSE IF Len(p) = 1 /\ IndexOf(p[1]) \in 1..Len(v.items)
         THEN v.items[IndexOf(p[1])]
         ELSE Undef

(***************************************************************************)
(* Texts: split, sort order                                                *)
(***************************************************************************)
RECURSIVE SplitAcc(_, _, _)
SplitAcc(txt, sep, cur) ==
    IF txt = <<>> THEN <<cur>>
    ELSE IF Head(txt) = sep THEN <<cur>> \o SplitAcc(Tail(txt), sep, <<>>)
    ELSE SplitAcc(Tail(txt), sep, Append(cur, Head(txt)))

\* String.prototype.split(sep)
Split(txt, sep) == SplitAcc(txt, sep, <<>>)

\* The collation order of the symbols that occur in keys.
Collation == <<"_glueson", "a", "b", "c", "code", "command", "content", "env",
               "input", "k", "lazy", "log", "params", "path", "stdin", "v", "x", "y">>

Rank(sym) ==
    IF \E i \in 1..Len(Collation) : Collation[i] = sym
    THEN CHOOSE i \in 1..Len(Collation) : Collation[i] = sym
    ELSE Len(Collation) + 1

RECURSIVE TextLess(_, _)
\* a.localeCompare(b) < 0
TextLess(a, b) ==
    IF b = <<>> THEN FALSE
    ELSE IF a = <<>> THEN TRUE
    ELSE IF Rank(Head(a)) # Rank(Head(b)) THEN Rank(Head(a)) < Rank(Head(b))
    ELSE TextLess(Tail(a), Tail(b))

RECURSIVE InsertField(_, _)
InsertField(sorted, f) ==
    IF sorted = <<>> THEN <<f>>
    ELSE IF TextLess(f[1], Head(sorted)[1]) THEN <<f>> \o sorted
    ELSE <<Head(sorted)>> \o InsertField(Tail(sorted), f)

RECURSIVE SortFields(_)
\* entries.sort((a, b) => a[0].localeCompare(b[0])), a stable sort
SortFields(fs) ==
    IF fs = <<>> THEN <<>>
    ELSE InsertField(SortFields(SubSeq(fs, 1, Len(fs) - 1)), fs[Len(fs)])

(***************************************************************************)
(* JSON.stringify                                                          *)
(***************************************************************************)
RECURSIVE Escape(_)
Escape(txt) ==
    IF txt = <<>> THEN <<>>
    ELSE (IF Head(txt) \in {"\"", "\\"} THEN <<"\\", Head(txt)>> ELSE <<Head(txt)>>)
         \o Escape(Tail(txt))

Quote(txt) == <<"\"">> \o Escape(txt) \o <<"\"">>

\* sortProps of hashExpression: an object's entries sorted by key; arrays,
\* null and primitives are returned as they are.
sortProps(v) == IF v.t = "obj" THEN Obj(SortFields(v.fields)) ELSE v

\* The replacer of a JSON.stringify call: "none", or "sort" for sortProps.
Replace(rep, v) == IF rep = "sort" THEN sortProps(v) ELSE v

RECURSIVE Stringify(_, _)
RECURSIVE StringifyItems(_, _, _)
RECURSIVE StringifyFields(_, _, _)
\* JSON.stringify(value, replacer) of a value that is not undefined
Stringify(v0, rep) ==
    LET v == Replace(rep, v0) IN
    CASE v.t = "str" -> Quote(v.s)
      [] v.t = "arr" -> <<"[">> \o StringifyItems(v.items, rep, TRUE) \o <<"]">>
      [] v.t = "obj" -> <<"{">> \o StringifyFields(v.fields, rep, TRUE) \o <<"}">>
      [] v.t = "undef" -> <<"null">>
      [] OTHER -> v.s

\* the elements of an array: undefined is written as null
StringifyItems(xs, rep, first) ==
    IF xs = <<>> THEN <<>>
    ELSE (IF first THEN <<>> ELSE <<",">>)
         \o Stringify(Head(xs), rep) \o StringifyItems(Tail(xs), rep, FALSE)

\* the properties of an object: one whose value is undefined is left out
StringifyFields(fs, rep, first) ==
    IF fs = <<>> THEN <<>>
    ELSE IF Replace(rep, Head(fs)[2]).t = "undef" THEN StringifyFields(Tail(fs), rep, first)
    ELSE (IF first THEN <<>> ELSE <<",">>)
         \o Quote(Head(fs)[1]) \o <<":">> \o Stringify(Head(fs)[2], rep)
         \o StringifyFields(Tail(fs), rep, FALSE)

(***************************************************************************)
(* JSON.parse                                                              *)
(***************************************************************************)
ParseFail == [ok |-> FALSE, val |-> Undef, rest |-> <<>>]
Parsed(v, rest) == [ok |-> TRUE, val |-> v, rest |-> rest]

RECURSIVE SkipWs(_)
SkipWs(txt) == IF txt # <<>> /\ Head(txt) = " " THEN SkipWs(Tail(txt)) ELSE txt

\* obj[key] = value while parsing: a repeated key keeps its place and takes
\* the later value
SetField(fs, k, v) ==
    IF \E i \in 1..Len(fs) : fs[i][1] = k
    THEN [i \in 1..Len(fs) |-> IF fs[i][1] = k THEN <<k, v>> ELSE fs[i]]
    ELSE Append(fs, <<k, v>>)

RECURSIVE ParseChars(_, _)
\* the characters of a string literal, after its opening quote
ParseChars(txt, acc) ==
    IF txt = <<>> THEN ParseFail
    ELSE IF Head(txt) = "\"" THEN Parsed(Text(acc), Tail(txt))
    ELSE IF Head(txt) = "\\"
         THEN IF Len(txt) >= 2 /\ txt[2] \in {"\"", "\\"}
              THEN ParseChars(Tail(Tail(txt)), Append(acc, txt[2]))
              ELSE ParseFail
    ELSE ParseChars(Tail(txt), Append(acc, Head(txt)))

RECURSIVE ParseValue(_)
RECURSIVE ParseElements(_, _)
RECURSIVE ParseMembers(_, _)
ParseValue(txt0) ==
    LET txt == SkipWs(txt0) IN
    IF txt = <<>> THEN ParseFail
    ELSE LET c == Head(txt) IN
         CASE c = "\"" -> ParseChars(Tail(txt), <<>>)
           [] c = "[" ->
                IF SkipWs(Tail(txt)) # <<>> /\ Head(SkipWs(Tail(txt))) = "]"
                THEN Parsed(Arr(<<>>), Tail(SkipWs(Tail(txt))))
                ELSE ParseElements(Tail(txt), <<>>)
           [] c = "{" ->
                IF SkipWs(Tail(txt)) # <<>> /\ Head(SkipWs(Tail(txt))) = "}"
                THEN Parsed(Obj(<<>>), Tail(SkipWs(Tail(txt))))
                ELSE ParseMembers(Tail(txt), <<>>)
           [] c = "true" -> Parsed(True, Tail(txt))
           [] c = "false" -> Parsed(False, Tail(txt))
           [] c = "null" -> Parsed(Null, Tail(txt))
           [] c \in Digits -> Parsed(Num(c), Tail(txt))
           [] OTHER -> ParseFail

\* value ("," value)* "]"
ParseElements(txt, acc) ==
    LET r == ParseValue(txt) IN
    IF ~r.ok THEN ParseFail
    ELSE LET rest == SkipWs(r.rest) IN
         IF rest = <<>> THEN ParseFail
         ELSE IF Head(rest) = "]" THEN Parsed(Arr(Append(acc, r.val)), Tail(rest))
         ELSE IF Head(rest) = "," THEN ParseElements(Tail(rest), Append(acc, r.val))
         ELSE ParseFail

\* string ":" value ("," string ":" value)* "}"
ParseMembers(txt0, acc) ==
    LET txt == SkipWs(txt0) IN
    IF txt = <<>> \/ Head(txt) # "\"" THEN ParseFail
    ELSE LET k == ParseChars(Tail(txt), <<>>) IN
         IF ~k.ok THEN ParseFail
         ELSE LET afterKey == SkipWs(k.rest) IN
              IF afterKey = <<>> \/ Head(afterKey) # ":" THEN ParseFail
              ELSE LET r == ParseValue(Tail(afterKey)) IN
                   IF ~r.ok THEN ParseFail
                   ELSE LET rest == SkipWs(r.rest)
                            fs == SetField(acc, k.val.s, r.val) IN
                        IF rest = <<>> THEN ParseFail
                        ELSE IF Head(rest) = "}" THEN Parsed(Obj(fs), Tail(rest))
                        ELSE IF Head(rest) = "," THEN ParseMembers(Tail(rest), fs)
                        ELSE ParseFail

\* JSON.parse(text): ok is FALSE when it throws a SyntaxError
JsonParse(txt) ==
    LET r == ParseValue(txt) IN
    IF r.ok /\ SkipWs(r.rest) = <<>> THEN Parsed(r.val, <<>>) ELSE ParseFail

(***************************************************************************)
(* The expression model and its validators (parsers)                       *)
(***************************************************************************)
Operations == {"evaluate", "execute", "get", "parse", "serialize", "temporary-file"}

isBaseType(v) == TypeOf(v) \in {"string", "number", "boolean"}

isExpression(v) == v.t = "obj" /\ HasKey(v, <<"_glueson">>)

\* What resolveGlueson returns at once: a base type, null or undefined.
IsPrimitive(v) == isBaseType(v) \/ v.t = "null" \/ v.t = "undef"

RECURSIVE ArgText(_)
\* String(value), which is also the text of value as a property key and the
\* text spawn passes for an argument; an array joins its items with commas,
\* a null or undefined item giving the empty text
ArgText(v) ==
    CASE v.t = "obj" -> <<"[object Object]">>
      [] v.t = "arr" ->
            IF v.items = <<>> THEN <<>>
            ELSE LET h == IF v.items[1].t \in {"null", "undef"} THEN <<>>
                          ELSE ArgText(v.items[1]) IN
                 IF Len(v.items) = 1 THEN h
                 ELSE h \o <<",">> \o ArgText(Arr(Tail(v.items)))
      [] v.t = "undef" -> <<"undefined">>
      [] OTHER -> v.s

\* Names that every mapping inherits from Object.prototype, and the
\* function such a name yields.
ObjectPrototype == {"constructor", "toString"}

\* The property key expression._glueson selects in parsers.
ParserKey(g) == ArgText(GetKey(g, <<"_glueson">>))

\* The operation an expression node names, "" when parsers has no such entry
\* of its own.
OperationOf(g) ==
    LET key == ParserKey(g) IN
    IF Len(key) = 1 /\ key[1] \in Operations THEN key[1] ELSE ""

\* validators that read params before the field they read first
FieldsOfParamsFirst(op) ==
    CASE op = "evaluate" -> <<[name |-> "params", mode |-> "shallow"],
                              [name |-> "code", mode |-> "deep"],
                              [name |-> "lazy", mode |-> "deep"]>>
      [] op = "execute" -> <<[name |-> "params", mode |-> "deep"],
                             [name |-> "command", mode |-> "deep"],
                             [name |-> "stdin", mode |-> "deep"],
                             [name |-> "log", mode |-> "deep"],
                             [name |-> "env", mode |-> "deep"]>>
      [] op = "get" -> <<[name |-> "path", mode |-> "deep"],
                         [name |-> "input", mode |-> "raw"]>>
      [] op = "parse" -> <<[name |-> "input", mode |-> "deep"]>>
      [] op = "serialize" -> <<[name |-> "input", mode |-> "deep"]>>
      [] OTHER -> <<[name |-> "content", mode |-> "deep"]>>

\* The fields a validator reads, in the order it reads them, and how:
\* "deep" through resolveGlueson, "shallow" through resolveValue, "raw" as is.
FieldsOf(op) ==
    CASE op = "evaluate" -> <<[name |-> "code", mode |-> "deep"],
                              [name |-> "lazy", mode |-> "deep"],
                              [name |-> "params", mode |-> "shallow"]>>
      [] op = "execute" -> <<[name |-> "command", mode |-> "deep"],
                             [name |-> "params", mode |-> "deep"],
                             [name |-> "stdin", mode |-> "deep"],
                             [name |-> "log", mode |-> "deep"],
                             [name |-> "env", mode |-> "deep"]>>
      [] op = "get" -> <<[name |-> "path", mode |-> "deep"],
                         [name |-> "input", mode |-> "raw"]>>
      [] op = "parse" -> <<[name |-> "input", mode |-> "deep"]>>
      [] op = "serialize" -> <<[name |-> "input", mode |-> "deep"]>>
      [] OTHER -> <<[name |-> "content", mode |-> "deep"]>>

\* Object.entries(env) has a value that is not a string
BadEnvValue(v) ==
    IF v.t = "obj" THEN \E i \in 1..Len(v.fields) : TypeOf(v.fields[i][2]) # "string"
    ELSE \E i \in 1..Len(v.items) : TypeOf(v.items[i]) # "string"

\* The check a validator runs on a field right after resolving it: the
\* message of the error it throws, <<>> when it throws none.
FieldError(op, name, v) ==
    CASE op = "evaluate" /\ name = "code" ->
            IF TypeOf(v) # "string" THEN <<"code must be a string">> ELSE <<>>
      [] op = "evaluate" /\ name = "lazy" ->
            IF v # Undef /\ TypeOf(v) # "boolean" THEN <<"lazy must be a boolean">> ELSE <<>>
      [] name = "params" ->
            IF v # Undef /\ TypeOf(v) # "object" THEN <<"params must be an object">> ELSE <<>>
      [] op = "execute" /\ name = "command" ->
            IF TypeOf(v) # "string" THEN <<"command must be a string">> ELSE <<>>
      [] op = "execute" /\ name = "log" ->
            IF v # Undef /\ TypeOf(v) # "boolean" THEN <<"log must be a boolean">> ELSE <<>>
      [] op = "execute" /\ name = "env" ->
            IF v = Undef THEN <<>>
            ELSE IF TypeOf(v) # "object" THEN <<"env must be an object">>
            ELSE IF v = Null THEN <<"TypeError: Cannot convert undefined or null to object">>
            ELSE IF BadEnvValue(v) THEN <<"env values must be strings">>
            ELSE <<>>
      [] op = "get" /\ name = "path" ->
            IF TypeOf(v) # "string" THEN <<"path is required">> ELSE <<>>
      [] op = "parse" /\ name = "input" ->
            IF TypeOf(v) # "string" THEN <<"parse input must be a string">> ELSE <<>>
      [] op = "serialize" /\ name = "input" ->
            IF v = Undef THEN <<"serialize input must be defined">> ELSE <<>>
      [] op = "temporary-file" /\ name = "content" ->
            IF v = Undef THEN <<"temp-file content must be defined">> ELSE <<>>
      [] OTHER -> <<>>

\* value ?? default
Nullish(v, d) == IF v.t \in {"undef", "null"} THEN d ELSE v

\* a validator that returns the fields as resolved, without the defaults
ValidatedAsGiven(op, vals) ==
    CASE op = "evaluate" ->
            Obj(<<F("_glueson", Str(op)), F("code", vals[1]), F("params", vals[3]),
                  F("lazy", vals[2])>>)
      [] op = "execute" ->
            Obj(<<F("_glueson", Str(op)), F("command", vals[1]), F("params", vals[2]),
                  F("stdin", vals[3]), F("log", vals[4]), F("env", vals[5])>>)
      [] op = "get" ->
            Obj(<<F("_glueson", Str(op)), F("input", vals[2]), F("path", vals[1])>>)
      [] op = "parse" -> Obj(<<F("_glueson", Str(op)), F("input", vals[1])>>)
      [] op = "serialize" -> Obj(<<F("_glueson", Str(op)), F("input", vals[1])>>)
      [] OTHER ->
            Obj(<<F("_glueson", Str(op)),
                  F("content", IF vals[1].t = "str" THEN vals[1]
                               ELSE Text(Stringify(vals[1], "none")))>>)

\* The validated expression a validator returns from its resolved fields
\* (vals[i] is the value of field i of FieldsOf).
Validated(op, vals) ==
    CASE op = "evaluate" ->
            Obj(<<F("_glueson", Str(op)), F("code", vals[1]), F("params", vals[3]),
                  F("lazy", Nullish(vals[2], False))>>)
      [] op = "execute" ->
            Obj(<<F("_glueson", Str(op)), F("command", vals[1]),
                  F("params", Nullish(vals[2], Obj(<<>>))),
                  F("stdin", Nullish(vals[3], Text(<<>>))),
                  F("log", Nullish(vals[4], False)),
                  F("env", Nullish(vals[5], Obj(<<>>)))>>)
      [] op = "get" ->
            Obj(<<F("_glueson", Str(op)), F("input", vals[2]), F("path", vals[1])>>)
      [] op = "parse" -> Obj(<<F("_glueson", Str(op)), F("input", vals[1])>>)
      [] op = "serialize" -> Obj(<<F("_glueson", Str(op)), F("input", vals[1])>>)
      [] OTHER ->
            Obj(<<F("_glueson", Str(op)),
                  F("content", IF vals[1].t = "str" THEN vals[1]
                               ELSE Text(Stringify(vals[1], "none")))>>)

\* Whether resolving a field suspends the validator on a task of its own:
\* a primitive comes back as it is.
NeedsTask(mode, raw) ==
    CASE mode = "deep" -> ~IsPrimitive(raw)
      [] mode = "shallow" -> isExpression(raw)
      [] OTHER -> FALSE

RECURSIVE ParserRun(_, _, _, _)
\* A validator from field i on, up to the first field it has to wait for:
\* "done", "err" (a check threw) or "need" (field i is being resolved).
ParserRun(op, g, i, vals) ==
    IF i > Len(FieldsOf(op))
    THEN [status |-> "done", i |-> i, vals |-> vals, err |-> <<>>]
    ELSE LET f == FieldsOf(op)[i]
             raw == GetKey(g, <<f.name>>) IN
         IF f.mode = "raw" THEN ParserRun(op, g, i + 1, Append(vals, raw))
         ELSE IF NeedsTask(f.mode, raw)
              THEN [status |-> "need", i |-> i, vals |-> vals, err |-> <<>>]
         ELSE IF FieldError(op, f.name, raw) # <<>>
              THEN [status |-> "err", i |-> i, vals |-> vals,
                    err |-> FieldError(op, f.name, raw)]
         ELSE ParserRun(op, g, i + 1, Append(vals, raw))

(***************************************************************************)
(* hashExpression                                                          *)
(***************************************************************************)
\* JSON.stringify(expression) with no replacer: the keys in insertion order
hashInsertionOrder(e) == Stringify(e, "none")

RECURSIVE InsertItem(_, _)
InsertItem(sorted, x) ==
    IF sorted = <<>> THEN <<x>>
    ELSE IF TextLess(Stringify(x, "none"), Stringify(Head(sorted), "none"))
         THEN <<x>> \o sorted
    ELSE <<Head(sorted)>> \o InsertItem(Tail(sorted), x)

RECURSIVE SortItems(_)
SortItems(xs) ==
    IF xs = <<>> THEN <<>>
    ELSE InsertItem(SortItems(SubSeq(xs, 1, Len(xs) - 1)), xs[Len(xs)])

RECURSIVE SortEverything(_)
\* a canonical form that sorts the elements of arrays as well as the keys
SortEverything(v) ==
    CASE v.t = "arr" -> Arr(SortItems([i \in 1..Len(v.items) |-> SortEverything(v.items[i])]))
      [] v.t = "obj" ->
            Obj(SortFields([i \in 1..Len(v.fields) |->
                                <<v.fields[i][1], SortEverything(v.fields[i][2])>>]))
      [] OTHER -> v

hashSortedSequences(e) == Stringify(SortEverything(e), "none")

\* The text that is hashed.  The digest (SHA-256) is taken as injective on
\* the texts of a run, so the fingerprint is this text.
hashExpression(e) == Stringify(sortProps(e), "sort")

(***************************************************************************)
(* The executors that run without suspending                               *)
(***************************************************************************)
Threw(msg) == [ok |-> FALSE, val |-> Undef, err |-> msg]
Returned(v) == [ok |-> TRUE, val |-> v, err |-> <<>>]

RECURSIVE GetWalkOptional(_, _)
\* the loop with result?.[property] and no check: a node that has no
\* properties yields undefined
GetWalkOptional(result, properties) ==
    IF properties = <<>> THEN Returned(result)
    ELSE IF TypeOf(result) # "object" \/ result = Null
         THEN GetWalkOptional(Undef, Tail(properties))
    ELSE GetWalkOptional(Member(result, Head(properties)), Tail(properties))

RECURSIVE GetWalk(_, _)
\* the loop of executeGetExpression over the remaining properties; null
\* passes the check of typeof and the runtime throws on null[property]
GetWalk(result, properties) ==
    IF properties = <<>> THEN Returned(result)
    ELSE IF TypeOf(result) # "object"
         THEN Threw(<<"cannot get property", Head(properties), "of non-object">>)
    ELSE IF result = Null
         THEN Threw(<<"TypeError: Cannot read properties of null (reading",
                      Head(properties), ")">>)
    ELSE GetWalk(Member(result, Head(properties)), Tail(properties))

executeGetExpression(e) ==
    GetWalk(GetKey(e, <<"input">>), Split(GetKey(e, <<"path">>).s, "."))

executeParseExpression(e) ==
    LET r == JsonParse(GetKey(e, <<"input">>).s) IN
    IF r.ok THEN Returned(r.val) ELSE Threw(<<"SyntaxError">>)

executeSerializeExpression(e) ==
    Returned(Text(Stringify(GetKey(e, <<"input">>), "none")))

toJsonIfNotString(v) == IF v.t = "str" THEN v.s ELSE Stringify(v, "none")

\* if (value): the values a condition takes as false
Falsy(v) ==
    \/ v.t \in {"undef", "null"}
    \/ v = False
    \/ v = Text(<<>>)
    \/ v = Num("0")

SelectNonEmpty(ws) == SelectSeq(ws, LAMBDA w : w # <<>>)

\* The function a mapping inherits from Object.prototype under a name.
Inherited(name) ==
    [t |-> "fn",
     s |-> <<"function ", IF name = "constructor" THEN "Object" ELSE name,
             "() { [native code] }">>]

\* inputs[name]: the entry of the mapping, else what the mapping inherits
\* under that name, else undefined
Lookup(inputs, name) ==
    IF TypeOf(inputs) # "object" \/ inputs = Null THEN Undef
    ELSE IF Member(inputs, name) # Undef THEN Member(inputs, name)
    ELSE IF inputs.t = "obj" /\ Len(name) = 1 /\ name[1] \in ObjectPrototype
         THEN Inherited(name[1])
    ELSE Undef

RECURSIVE ExpandArgs(_, _)
\* the flatMap of prepareArgs: the arguments of the tokens, in order
ExpandArgs(toks, inputs) ==
    IF toks = <<>> THEN Returned(Arr(<<>>))
    ELSE LET arg == Head(toks)
             rest == ExpandArgs(Tail(toks), inputs) IN
         IF arg[1] = "$"
         THEN LET input == Lookup(inputs, Tail(arg)) IN
              IF input = Undef THEN Threw(<<"missing input">> \o arg)
              ELSE IF ~rest.ok THEN rest
              ELSE Returned(Arr((IF input.t = "arr" THEN input.items ELSE <<input>>)
                                \o rest.val.items))
         ELSE IF ~rest.ok THEN rest
         ELSE Returned(Arr(<<Text(arg)>> \o rest.val.items))

RECURSIVE Resplit(_)
Resplit(items) ==
    IF items = <<>> THEN <<>>
    ELSE (IF Head(items).t = "str"
          THEN [k \in 1..Len(SelectNonEmpty(Split(Head(items).s, " "))) |->
                    Text(SelectNonEmpty(Split(Head(items).s, " "))[k])]
          ELSE <<Head(items)>>)
         \o Resplit(Tail(items))

\* the arguments as a shell builds them: the values are substituted into the
\* command line, which is split afterwards
prepareArgsShell(command, inputs) ==
    LET r == ExpandArgs(SelectNonEmpty(Split(command.s, " ")), inputs) IN
    IF r.ok THEN Returned(Arr(Resplit(r.val.items))) ELSE r

prepareArgs(command, inputs) ==
    ExpandArgs(SelectNonEmpty(Split(command.s, " ")), inputs)

(***************************************************************************)
(* State                                                                   *)
(***************************************************************************)
VARIABLES
    doc,        \* the document read from the input
    tasks,      \* the calls of async functions made so far, in order of call
    root,       \* the task whose result the main program awaits
    cache,      \* the Map cache: fingerprint -> the task (promise) stored
    procs,      \* the child processes spawned so far
    runs,       \* fingerprint -> how many times an executor was entered for it
    clock,      \* the last reading of new Date().getTime()
    files,      \* the files written
    tempFiles,  \* the Set tempFiles
    pstatus,    \* "running", "printed", "exit1" (process.exit(1)), "crashed"
    output,     \* what the main program printed
    pass,       \* 1: the run of the main program, 2: a second resolveGlueson
    first       \* what pass 1 printed and ran

vars == <<doc, tasks, root, cache, procs, runs, clock, files, tempFiles,
          pstatus, output, pass, first>>

\* A call of an async function: `arg` is its argument, `g` the value it works
\* on, `kids` the tasks it awaits, `st` the state of its promise and `at` the
\* place of its settling among the settlings of the run.  A resolver keeps in
\* `req` the validated expression it last executed and, once the executor
\* has returned (`got`), in `rcv` what it returned.
Task(fn, pc, deep, g) ==
    [fn |-> fn, pc |-> pc, deep |-> deep, arg |-> g, g |-> g, op |-> "", i |-> 0,
     vals |-> <<>>, kids |-> <<>>, st |-> "run", res |-> Undef, err |-> <<>>,
     proc |-> 0, at |-> 0, req |-> Undef, got |-> FALSE, rcv |-> Undef]

SettledCount == Cardinality({k \in 1..Len(tasks) : tasks[k].st # "run"})

Ok(task, v) == [task EXCEPT !.st = "ok", !.res = v, !.pc = "end", !.at = SettledCount + 1]
Err(task, msg) == [task EXCEPT !.st = "err", !.err = msg, !.pc = "end", !.at = SettledCount + 1]

\* the resolver calls the executor of the validated expression e
Calling(task, e) == [task EXCEPT !.req = e, !.got = FALSE, !.rcv = Undef]

Bump(h) == IF h \in DOMAIN runs THEN [runs EXCEPT ![h] = @ + 1] ELSE runs @@ (h :> 1)

Running(t, fn, pc) ==
    /\ pstatus = "running"
    /\ tasks[t].fn = fn /\ tasks[t].pc = pc /\ tasks[t].st = "run"

(***************************************************************************)
(* Scheduling.  The continuation of an `await` is a microtask, and the     *)
(* runtime runs the microtasks that are ready before it delivers the next  *)
(* event (a child's exit, the end of a write).  A continuation that reads  *)
(* and writes nothing but its own task is `local`: the local continuations *)
(* that are ready run first, the oldest task's first.  The continuations   *)
(* that touch the cache, the child processes, the clock or the process     *)
(* itself then run in any order, and the events come last.                 *)
(***************************************************************************)
Settled(k) == tasks[k].st # "run"

\* The operation of the validated expression task k has returned.
Validator(k) == IF tasks[k].st = "ok" THEN OperationOf(tasks[k].res) ELSE ""

AllOk(kids) == \A i \in 1..Len(kids) : IF kids[i] = 0 THEN TRUE ELSE tasks[kids[i]].st = "ok"

SomeErr(kids) == \E i \in 1..Len(kids) : IF kids[i] = 0 THEN FALSE ELSE tasks[kids[i]].st = "err"

LocalReady(t) ==
    LET me == tasks[t] IN
    IF me.st # "run" THEN FALSE
    ELSE CASE me.fn = "resolve" /\ me.pc = "rv" -> TRUE
           [] me.fn = "resolve" /\ me.pc = "parsed" ->
                IF tasks[me.kids[1]].st = "err" THEN TRUE
                ELSE Validator(me.kids[1]) \in {"get", "parse", "serialize", "evaluate"}
           [] me.fn = "resolve" /\ me.pc = "exec" -> Settled(me.kids[1])
           [] me.fn = "resolve" /\ me.pc = "join" ->
                IF AllOk(me.kids) THEN TRUE ELSE SomeErr(me.kids)
           [] me.fn \in {"parser", "evaluate"} -> Settled(me.kids[1])
           [] OTHER -> FALSE

\* the continuations when siblings are resolved one after the other: the
\* executor of a sibling is not due while the child of another is running
VisibleReadyInTurn(t) ==
    LET me == tasks[t] IN
    IF me.st # "run" THEN FALSE
    ELSE CASE me.fn = "resolve" /\ me.pc = "parsed" ->
                /\ Validator(me.kids[1]) \in {"execute", "temporary-file"}
                /\ \A p \in 1..Len(procs) : procs[p].st # "running"
           [] me.fn = "execute" /\ me.pc = "notfound" -> TRUE
           [] me.fn = "execute" -> procs[me.proc].st = "exited"
           [] OTHER -> FALSE

VisibleReady(t) ==
    LET me == tasks[t] IN
    IF me.st # "run" THEN FALSE
    ELSE CASE me.fn = "resolve" /\ me.pc = "parsed" ->
                Validator(me.kids[1]) \in {"execute", "temporary-file"}
           [] me.fn = "execute" /\ me.pc = "notfound" -> TRUE
           [] me.fn = "execute" -> procs[me.proc].st = "exited"
           [] OTHER -> FALSE

\* task t runs a local continuation
Turn(t) == LocalReady(t) /\ \A u \in 1..(t - 1) : ~LocalReady(u)

\* no local continuation is ready
Quiet == \A t \in 1..Len(tasks) : ~LocalReady(t)

\* no continuation is ready: the runtime waits for an event
Idle == \A t \in 1..Len(tasks) : ~LocalReady(t) /\ ~VisibleReady(t)

(***************************************************************************)
(* resolveValue and resolveGlueson                                         *)
(***************************************************************************)
\* A validator from field i on: the parser task as it suspends or settles,
\* and the task of the field it waits for (which gets the id `next`).
ParserAdvance(pt, i, vals, next) ==
    LET r == ParserRun(pt.op, pt.g, i, vals) IN
    CASE r.status = "done" -> <<Ok(pt, Validated(pt.op, r.vals)), <<>>>>
      [] r.status = "err" -> <<Err(pt, r.err), <<>>>>
      [] OTHER ->
            <<[pt EXCEPT !.pc = "await", !.i = r.i, !.vals = r.vals, !.kids = <<next>>],
              <<Task("resolve", "rv", FieldsOf(pt.op)[r.i].mode = "deep",
                     GetKey(pt.g, <<FieldsOf(pt.op)[r.i].name>>))>>>>

\* resolveValue, the head of its loop on an expression node: parseExpression
\* is called and awaited.
resolveValueParse(t) ==
    /\ Turn(t)
    /\ Running(t, "resolve", "rv")
    /\ isExpression(tasks[t].g)
    /\ LET me == tasks[t]
           n == Len(tasks)
           op == OperationOf(me.g) IN
       IF op = ""
       THEN tasks' = [tasks EXCEPT ![t] =
                Err(me, IF Len(ParserKey(me.g)) = 1 /\ ParserKey(me.g)[1] \in ObjectPrototype
                        THEN <<"Error: unknown expression type">>
                        ELSE <<"TypeError: parsers[expression._glueson] is not a function">>)]
       ELSE LET pa == ParserAdvance([Task("parser", "run", FALSE, me.g) EXCEPT !.op = op],
                                    1, <<>>, n + 2) IN
            tasks' = [tasks EXCEPT ![t] = [me EXCEPT !.pc = "parsed", !.kids = <<n + 1>>]]
                     \o <<pa[1]>> \o pa[2]
    /\ UNCHANGED <<doc, root, cache, procs, runs, clock, files, tempFiles, pstatus,
                   output, pass, first>>

\* A validator whose field has been resolved: its check, then the next fields.
parserStep(t) ==
    /\ Turn(t)
    /\ Running(t, "parser", "await")
    /\ tasks[tasks[t].kids[1]].st # "run"
    /\ LET me == tasks[t]
           kid == tasks[me.kids[1]]
           f == FieldsOf(me.op)[me.i] IN
       IF kid.st = "err" THEN tasks' = [tasks EXCEPT ![t] = Err(me, kid.err)]
       ELSE IF FieldError(me.op, f.name, kid.res) # <<>>
            THEN tasks' = [tasks EXCEPT ![t] = Err(me, FieldError(me.op, f.name, kid.res))]
       ELSE LET pa == ParserAdvance(me, me.i + 1, Append(me.vals, kid.res),
                                    Len(tasks) + 1) IN
            tasks' = [tasks EXCEPT ![t] = pa[1]] \o pa[2]
    /\ UNCHANGED <<doc, root, cache, procs, runs, clock, files, tempFiles, pstatus,
                   output, pass, first>>

\* The elements of a sequence, the values of a mapping.
Items(g) == IF g.t = "arr" THEN g.items ELSE [i \in 1..Len(g.fields) |-> g.fields[i][2]]

\* The task of each element: 0 for an element that is returned at once.
RECURSIVE KidIds(_, _)
KidIds(items, base) ==
    IF items = <<>> THEN <<>>
    ELSE IF IsPrimitive(Head(items)) THEN <<0>> \o KidIds(Tail(items), base)
    ELSE <<base + 1>> \o KidIds(Tail(items), base + 1)

\* the results in the order in which the elements' promises settled
AssembleInCompletionOrder(g, kids, ts) ==
    LET ids == {kids[i] : i \in 1..Len(kids)} \ {0}
        before(i) == Cardinality({j \in 1..(i - 1) : kids[j] # 0})
        nth(i) == CHOOSE k \in ids :
                    Cardinality({j \in ids : ts[j].at < ts[k].at}) = before(i)
        at(i, orig) == IF kids[i] = 0 THEN orig ELSE ts[nth(i)].res IN
    IF g.t = "arr"
    THEN Arr([i \in 1..Len(g.items) |-> at(i, g.items[i])])
    ELSE Obj([i \in 1..Len(g.fields) |-> <<g.fields[i][1], at(i, g.fields[i][2])>>])

\* Promise.all / Object.fromEntries: the results, each at its element's place.
Assemble(g, kids, ts) ==
    LET at(i, orig) == IF kids[i] = 0 THEN orig ELSE ts[kids[i]].res IN
    IF g.t = "arr"
    THEN Arr([i \in 1..Len(g.items) |-> at(i, g.items[i])])
    ELSE Obj([i \in 1..Len(g.fields) |-> <<g.fields[i][1], at(i, g.fields[i][2])>>])

\* resolveValue returns a node that is no expression; resolveGlueson then
\* returns a primitive, or starts the resolution of every element.
resolveGlueson(t) ==
    /\ Turn(t)
    /\ Running(t, "resolve", "rv")
    /\ ~isExpression(tasks[t].g)
    /\ LET me == tasks[t]
           g == me.g
           n == Len(tasks) IN
       IF ~me.deep \/ IsPrimitive(g) THEN tasks' = [tasks EXCEPT ![t] = Ok(me, g)]
       ELSE LET np == SelectSeq(Items(g), LAMBDA x : ~IsPrimitive(x))
                kids == KidIds(Items(g), n) IN
            IF np = <<>>
            THEN tasks' = [tasks EXCEPT ![t] = Ok([me EXCEPT !.kids = kids],
                                                  Assemble(g, kids, tasks))]
            ELSE tasks' = [tasks EXCEPT ![t] = [me EXCEPT !.pc = "join", !.kids = kids]]
                          \o [k \in 1..Len(np) |-> Task("resolve", "rv", TRUE, np[k])]
    /\ UNCHANGED <<doc, root, cache, procs, runs, clock, files, tempFiles, pstatus,
                   output, pass, first>>

\* Promise.all settles: fulfilled when every element is, rejected as soon as
\* one is.
join(t) ==
    /\ Turn(t)
    /\ Running(t, "resolve", "join")
    /\ LET me == tasks[t]
           ids == {me.kids[i] : i \in 1..Len(me.kids)} \ {0} IN
       \/ /\ AllOk(me.kids)
          /\ tasks' = [tasks EXCEPT ![t] = Ok(me, Assemble(me.g, me.kids, tasks))]
       \/ \E k \in ids :
            /\ tasks[k].st = "err"
            /\ tasks' = [tasks EXCEPT ![t] = Err(me, tasks[k].err)]
    /\ UNCHANGED <<doc, root, cache, procs, runs, clock, files, tempFiles, pstatus,
                   output, pass, first>>

(***************************************************************************)
(* executeGluesonExpression: the executors                                 *)
(***************************************************************************)
\* The validator has settled and the resolver dispatches on the variant.
Parsed1(t, op) ==
    /\ Running(t, "resolve", "parsed")
    /\ tasks[tasks[t].kids[1]].st = "ok"
    /\ OperationOf(tasks[tasks[t].kids[1]].res) = op

\* parseExpression rejected: resolveValue throws.
parseFailed(t) ==
    /\ Turn(t)
    /\ Running(t, "resolve", "parsed")
    /\ tasks[tasks[t].kids[1]].st = "err"
    /\ tasks' = [tasks EXCEPT ![t] = Err(tasks[t], tasks[tasks[t].kids[1]].err)]
    /\ UNCHANGED <<doc, root, cache, procs, runs, clock, files, tempFiles, pstatus,
                   output, pass, first>>

\* resolveValue with `if` in the place of `while`: what the executor returned
\* is returned as it is
ImmediateReturn(t, e, r) ==
    tasks' = [tasks EXCEPT ![t] =
                IF r.ok THEN Ok([Calling(tasks[t], e) EXCEPT !.g = r.val, !.got = TRUE,
                                                            !.rcv = r.val], r.val)
                ELSE Err(Calling(tasks[t], e), r.err)]

\* an executor whose promise never settles: resolveValue stays at its await
ImmediatePending(t, e, r) ==
    tasks' = [tasks EXCEPT ![t] = [Calling(tasks[t], e) EXCEPT !.pc = "exec", !.kids = <<t>>]]

\* An executor that runs to its end without suspending: resolveValue goes on
\* with what it returned, or throws what it threw.
Immediate(t, e, r) ==
    tasks' = [tasks EXCEPT ![t] =
                IF r.ok THEN [Calling(tasks[t], e) EXCEPT !.g = r.val, !.pc = "rv",
                                                         !.got = TRUE, !.rcv = r.val]
                ELSE Err(Calling(tasks[t], e), r.err)]

callGet(t) ==
    /\ Turn(t)
    /\ Parsed1(t, "get")
    /\ LET e == tasks[tasks[t].kids[1]].res IN
       /\ Immediate(t, e, executeGetExpression(e))
       /\ runs' = Bump(hashExpression(e))
    /\ UNCHANGED <<doc, root, cache, procs, clock, files, tempFiles, pstatus, output,
                   pass, first>>

callParse(t) ==
    /\ Turn(t)
    /\ Parsed1(t, "parse")
    /\ LET e == tasks[tasks[t].kids[1]].res IN
       /\ Immediate(t, e, executeParseExpression(e))
       /\ runs' = Bump(hashExpression(e))
    /\ UNCHANGED <<doc, root, cache, procs, clock, files, tempFiles, pstatus, output,
                   pass, first>>

callSerialize(t) ==
    /\ Turn(t)
    /\ Parsed1(t, "serialize")
    /\ LET e == tasks[tasks[t].kids[1]].res IN
       /\ Immediate(t, e, executeSerializeExpression(e))
       /\ runs' = Bump(hashExpression(e))
    /\ UNCHANGED <<doc, root, cache, procs, clock, files, tempFiles, pstatus, output,
                   pass, first>>

\* ---- execute -------------------------------------------------------------
\* The executables of the environment: "echo" prints its arguments, "cat"
\* copies its input once that is closed, "false" exits with 1, "date" prints
\* one of two texts.
Executables == {"echo", "cat", "false", "date"}

RECURSIVE JoinArgs(_)
JoinArgs(args) ==
    IF args = <<>> THEN <<>>
    ELSE IF Len(args) = 1 THEN ArgText(args[1])
    ELSE ArgText(args[1]) \o <<" ">> \o JoinArgs(Tail(args))

\* a runCommand that ends the child's input whatever stdin is
runCommandClosing(e, h) ==
    LET pa == prepareArgs(GetKey(e, <<"command">>), GetKey(e, <<"params">>))
        stdin == GetKey(e, <<"stdin">>) IN
    IF ~pa.ok THEN [ok |-> FALSE, err |-> pa.err, proc |-> <<>>]
    ELSE IF pa.val.items = <<>> \/ Falsy(pa.val.items[1])
         THEN [ok |-> FALSE, err |-> <<"command must consist of at least one character">>,
               proc |-> <<>>]
    ELSE IF TypeOf(pa.val.items[1]) # "string"
         THEN [ok |-> TRUE, err |-> <<"executable", ArgText(pa.val.items[1]), "not found">>,
               proc |-> <<>>]
    ELSE [ok |-> TRUE, err |-> <<>>,
          proc |-> <<[h |-> h,
                      exe |-> pa.val.items[1],
                      args |-> Tail(pa.val.items),
                      stdin |-> IF Falsy(stdin) THEN <<>> ELSE toJsonIfNotString(stdin),
                      closed |-> TRUE,
                      log |-> GetKey(e, <<"log">>) = True,
                      st |-> "running", code |-> 0, out |-> <<>>]>>]

\* runCommand up to its return: the arguments, then spawn and the child's
\* input.  `proc` is the child spawned, absent when prepareArgs threw or the
\* command is empty, and when spawn threw (it throws on an executable that
\* is no string), which resolves the promise with the message in `err`.
runCommand(e, h) ==
    LET pa == prepareArgs(GetKey(e, <<"command">>), GetKey(e, <<"params">>))
        stdin == GetKey(e, <<"stdin">>) IN
    IF ~pa.ok THEN [ok |-> FALSE, err |-> pa.err, proc |-> <<>>]
    ELSE IF pa.val.items = <<>> \/ Falsy(pa.val.items[1])
         THEN [ok |-> FALSE, err |-> <<"command must consist of at least one character">>,
               proc |-> <<>>]
    ELSE IF TypeOf(pa.val.items[1]) # "string"
         THEN [ok |-> TRUE, err |-> <<"executable", ArgText(pa.val.items[1]), "not found">>,
               proc |-> <<>>]
    ELSE [ok |-> TRUE, err |-> <<>>,
          proc |-> <<[h |-> h,
                      exe |-> pa.val.items[1],
                      args |-> Tail(pa.val.items),
                      stdin |-> IF Falsy(stdin) THEN <<>> ELSE toJsonIfNotString(stdin),
                      closed |-> ~Falsy(stdin),
                      log |-> GetKey(e, <<"log">>) = True,
                      st |-> "running", code |-> 0, out |-> <<>>]>>]

\* a cache that is never hit
cacheMiss(h) == 0

\* cached(fn): the promise stored for the fingerprint, else fn is called and
\* its promise stored.
cached(h) == IF h \in DOMAIN cache THEN cache[h] ELSE 0

callExecute(t) ==
    /\ Quiet
    /\ Parsed1(t, "execute")
    /\ LET e == tasks[tasks[t].kids[1]].res
           h == hashExpression(e)
           n == Len(tasks)
           rc == runCommand(e, h) IN
       IF cached(h) # 0
       THEN /\ tasks' = [tasks EXCEPT ![t] = [Calling(tasks[t], e) EXCEPT !.pc = "exec",
                                                !.kids = <<cached(h)>>]]
            /\ UNCHANGED <<cache, procs, runs>>
       ELSE /\ tasks' = [tasks EXCEPT ![t] = [Calling(tasks[t], e) EXCEPT !.pc = "exec",
                                                !.kids = <<n + 1>>]]
                        \o <<IF rc.ok /\ rc.proc = <<>>
                             THEN [Task("execute", "notfound", FALSE, e)
                                       EXCEPT !.err = rc.err]
                             ELSE IF rc.ok
                             THEN [Task("execute", "exit", FALSE, e)
                                       EXCEPT !.proc = Len(procs) + 1]
                             ELSE Err(Task("execute", "exit", FALSE, e), rc.err)>>
            /\ procs' = procs \o rc.proc
            /\ cache' = cache @@ (h :> n + 1)
            /\ runs' = Bump(h)
    /\ UNCHANGED <<doc, root, clock, files, tempFiles, pstatus, output, pass, first>>

\* The child exits (the "exit" event, with its streams read to the end).
procExit(p) ==
    /\ Idle
    /\ pstatus = "running"
    /\ procs[p].st = "running"
    /\ procs[p].exe.t = "str" /\ Len(procs[p].exe.s) = 1
    /\ \E r \in CASE procs[p].exe.s[1] = "echo" ->
                      {[code |-> 0, out |-> JoinArgs(procs[p].args) \o <<"\n">>]}
                  [] procs[p].exe.s[1] = "cat" ->
                      IF procs[p].closed THEN {[code |-> 0, out |-> procs[p].stdin]} ELSE {}
                  [] procs[p].exe.s[1] = "false" -> {[code |-> 1, out |-> <<>>]}
                  [] procs[p].exe.s[1] = "date" ->
                      {[code |-> 0, out |-> <<"mon">>], [code |-> 0, out |-> <<"tue">>]}
                  [] OTHER -> {} :
          procs' = [procs EXCEPT ![p] = [@ EXCEPT !.st = "exited", !.code = r.code,
                                                  !.out = r.out]]
    /\ UNCHANGED <<doc, tasks, root, cache, runs, clock, files, tempFiles, pstatus,
                   output, pass, first>>

\* The executable of the child is none of the environment: spawn returns,
\* the runtime emits "error" on the child in the next tick, and the event,
\* which has no listener, ends the process as an uncaught exception.
spawnError(p) ==
    /\ pstatus = "running"
    /\ procs[p].st = "running"
    /\ procs[p].exe.s \notin {<<x>> : x \in Executables}
    /\ procs' = [procs EXCEPT ![p] = [@ EXCEPT !.st = "failed"]]
    /\ pstatus' = "crashed"
    /\ UNCHANGED <<doc, tasks, root, cache, runs, clock, files, tempFiles, output,
                   pass, first>>

\* executeExcecuteExpression after runCommand resolved with a message: the
\* message is printed and the process exits with 1
launchFailed(t) ==
    /\ Quiet
    /\ Running(t, "execute", "notfound")
    /\ pstatus' = "launchfail"
    /\ UNCHANGED <<doc, tasks, root, cache, procs, runs, clock, files, tempFiles, output,
                   pass, first>>

\* executeExcecuteExpression returning the output without its last line end
executeDoneTrimmed(t) ==
    /\ Quiet
    /\ Running(t, "execute", "exit")
    /\ procs[tasks[t].proc].st = "exited"
    /\ LET p == procs[tasks[t].proc]
           trimmed == IF p.out # <<>> /\ p.out[Len(p.out)] = "\n"
                      THEN SubSeq(p.out, 1, Len(p.out) - 1) ELSE p.out IN
       IF p.code # 0
       THEN pstatus' = "exit1" /\ UNCHANGED tasks
       ELSE /\ tasks' = [tasks EXCEPT ![t] =
                    Ok(tasks[t], IF p.log THEN Num("0") ELSE Text(trimmed))]
            /\ UNCHANGED pstatus
    /\ UNCHANGED <<doc, root, cache, procs, runs, clock, files, tempFiles, output,
                   pass, first>>

\* executeExcecuteExpression with the test of `log` ahead of the test of the
\* exit code
executeDoneLogFirst(t) ==
    /\ Quiet
    /\ Running(t, "execute", "exit")
    /\ procs[tasks[t].proc].st = "exited"
    /\ LET p == procs[tasks[t].proc] IN
       IF p.log
       THEN /\ tasks' = [tasks EXCEPT ![t] =
                    Ok(tasks[t], IF p.code = 0 THEN Num("0") ELSE Num("1"))]
            /\ UNCHANGED pstatus
       ELSE IF p.code # 0
       THEN pstatus' = "exit1" /\ UNCHANGED tasks
       ELSE /\ tasks' = [tasks EXCEPT ![t] = Ok(tasks[t], Text(p.out))]
            /\ UNCHANGED pstatus
    /\ UNCHANGED <<doc, root, cache, procs, runs, clock, files, tempFiles, output,
                   pass, first>>

\* executeExcecuteExpression after runCommand: a nonzero exit code ends the
\* process; else the exit code under `log`, the captured output otherwise.
executeDone(t) ==
    /\ Quiet
    /\ Running(t, "execute", "exit")
    /\ procs[tasks[t].proc].st = "exited"
    /\ LET p == procs[tasks[t].proc] IN
       IF p.code # 0
       THEN pstatus' = "exit1" /\ UNCHANGED tasks
       ELSE /\ tasks' = [tasks EXCEPT ![t] =
                    Ok(tasks[t], IF p.log THEN Num("0") ELSE Text(p.out))]
            /\ UNCHANGED pstatus
    /\ UNCHANGED <<doc, root, cache, procs, runs, clock, files, tempFiles, output,
                   pass, first>>

\* await of the executor's promise in resolveValue
awaitExecutor(t) ==
    /\ Turn(t)
    /\ Running(t, "resolve", "exec")
    /\ tasks[tasks[t].kids[1]].st # "run"
    /\ LET x == tasks[tasks[t].kids[1]] IN
       tasks' = [tasks EXCEPT ![t] =
                    IF x.st = "ok" THEN [tasks[t] EXCEPT !.g = x.res, !.pc = "rv",
                                                         !.got = TRUE, !.rcv = x.res]
                    ELSE Err(tasks[t], x.err)]
    /\ UNCHANGED <<doc, root, cache, procs, runs, clock, files, tempFiles, pstatus,
                   output, pass, first>>

\* ---- evaluate ------------------------------------------------------------
\* {...params}: the own enumerable properties of params
Bindings(params) ==
    CASE params.t = "obj" -> params
      [] OTHER -> Obj(<<>>)

\* runInNewContext of "(async ()=>(" + code + "))()": the code is a literal
\* (JSON text is an expression of the language) or the name of a binding.
runInNewContext(code, bindings) ==
    IF JsonParse(code).ok THEN Returned(JsonParse(code).val)
    ELSE IF HasKey(bindings, code) THEN Returned(GetKey(bindings, code))
    ELSE Threw(<<"ReferenceError">>)

\* The code that calls the capability `get` on a binding: get(name),
\* get(name).catch(()=>literal), which handles the rejection of the promise
\* that get returned, and get(name,[key, ...]), which gives a path.
CallsGet(code, bindings) ==
    /\ Len(code) >= 3
    /\ code[1] = "get("
    /\ HasKey(bindings, <<code[2]>>)
    /\ IF code[3] = ")"
       THEN Len(code) = 3 \/ (Len(code) = 6 /\ code[4] = ".catch(()=>" /\ code[6] = ")")
       ELSE code[3] = ",[" /\ Len(code) >= 5 /\ code[Len(code)] = "])"

\* the path the code gives to get
GetPath(code) == IF code[3] = ",[" THEN SubSeq(code, 4, Len(code) - 1) ELSE <<>>

\* executeEvaluateExpression with no regard for lazy: params is resolved
\* before the code runs
callEvaluateEager(t) ==
    /\ Turn(t)
    /\ Parsed1(t, "evaluate")
    /\ LET e == tasks[tasks[t].kids[1]].res
           n == Len(tasks) IN
       /\ tasks' = [tasks EXCEPT ![t] = [Calling(tasks[t], e) EXCEPT !.pc = "exec",
                                                                    !.kids = <<n + 1>>]]
                    \o <<[Task("evaluate", "params", FALSE, e) EXCEPT !.kids = <<n + 2>>],
                         Task("resolve", "rv", TRUE, GetKey(e, <<"params">>))>>
       /\ runs' = Bump(hashExpression(e))
    /\ UNCHANGED <<doc, root, cache, procs, clock, files, tempFiles, pstatus, output,
                   pass, first>>

callEvaluate(t) ==
    /\ Turn(t)
    /\ Parsed1(t, "evaluate")
    /\ LET e == tasks[tasks[t].kids[1]].res
           params == GetKey(e, <<"params">>)
           code == GetKey(e, <<"code">>).s
           n == Len(tasks) IN
       /\ IF GetKey(e, <<"lazy">>) = True \/ IsPrimitive(params)
          THEN IF CallsGet(code, Bindings(params))
               THEN tasks' = [tasks EXCEPT ![t] = [Calling(tasks[t], e) EXCEPT
                                                      !.pc = "exec", !.kids = <<n + 1>>]]
                             \o <<[Task("evaluate", "get", FALSE, e) EXCEPT !.kids = <<n + 2>>],
                                  Task("resolve", "rv", FALSE,
                                       GetKey(Bindings(params), <<code[2]>>))>>
               ELSE Immediate(t, e, runInNewContext(code, Bindings(params)))
          ELSE tasks' = [tasks EXCEPT ![t] = [Calling(tasks[t], e) EXCEPT !.pc = "exec",
                                                                       !.kids = <<n + 1>>]]
                        \o <<[Task("evaluate", "params", FALSE, e) EXCEPT !.kids = <<n + 2>>],
                             Task("resolve", "rv", TRUE, params)>>
       /\ runs' = Bump(hashExpression(e))
    /\ UNCHANGED <<doc, root, cache, procs, clock, files, tempFiles, pstatus, output,
                   pass, first>>

\* executeEvaluateExpression once its params are resolved
evaluateRun(t) ==
    /\ Turn(t)
    /\ Running(t, "evaluate", "params")
    /\ tasks[tasks[t].kids[1]].st # "run"
    /\ LET me == tasks[t]
           kid == tasks[me.kids[1]]
           code == GetKey(me.g, <<"code">>).s
           r == runInNewContext(code, Bindings(kid.res)) IN
       IF kid.st = "err" THEN tasks' = [tasks EXCEPT ![t] = Err(me, kid.err)]
       ELSE IF CallsGet(code, Bindings(kid.res))
            THEN tasks' = [tasks EXCEPT ![t] = [me EXCEPT !.pc = "get",
                                                         !.kids = <<Len(tasks) + 1>>]]
                          \o <<Task("resolve", "rv", FALSE,
                                    GetKey(Bindings(kid.res), <<code[2]>>))>>
       ELSE tasks' = [tasks EXCEPT ![t] = IF r.ok THEN Ok(me, r.val) ELSE Err(me, r.err)]
    /\ UNCHANGED <<doc, root, cache, procs, runs, clock, files, tempFiles, pstatus,
                   output, pass, first>>

\* getValue called by the code: a resolveValue of it has settled.  While
\* keys of the path remain (`i` of them are applied), the value at the next
\* key is resolved; at the end the code returns the promise of getValue, or
\* the promise of its rejection handler.
evaluateGet(t) ==
    /\ Turn(t)
    /\ Running(t, "evaluate", "get")
    /\ tasks[tasks[t].kids[1]].st # "run"
    /\ LET me == tasks[t]
           kid == tasks[me.kids[1]]
           code == GetKey(me.g, <<"code">>).s
           path == GetPath(code) IN
       IF kid.st = "err"
       THEN tasks' = [tasks EXCEPT ![t] =
                        IF Len(code) = 6 /\ path = <<>> THEN Ok(me, JsonParse(<<code[5]>>).val)
                        ELSE Err(me, kid.err)]
       ELSE IF me.i >= Len(path) THEN tasks' = [tasks EXCEPT ![t] = Ok(me, kid.res)]
       ELSE IF TypeOf(kid.res) # "object"
            THEN tasks' = [tasks EXCEPT ![t] =
                    Err(me, <<"cannot get property", <<path[me.i + 1]>>, "of non-object">>)]
       ELSE IF kid.res = Null
            THEN tasks' = [tasks EXCEPT ![t] =
                    Err(me, <<"TypeError: Cannot read properties of null (reading",
                              <<path[me.i + 1]>>, ")">>)]
       ELSE tasks' = [tasks EXCEPT ![t] = [me EXCEPT !.i = me.i + 1,
                                                    !.kids = <<Len(tasks) + 1>>]]
                     \o <<Task("resolve", "rv", FALSE, Member(kid.res, <<path[me.i + 1]>>))>>
    /\ UNCHANGED <<doc, root, cache, procs, runs, clock, files, tempFiles, pstatus,
                   output, pass, first>>

\* ---- temporary-file ------------------------------------------------------
\* The clock reads up to MaxClock.
MaxClock == 1

\* executeTemporaryFileExpression up to its await of writeFile
callTemporaryFile(t) ==
    /\ Quiet
    /\ Parsed1(t, "temporary-file")
    /\ \E now \in clock..MaxClock :
        LET e == tasks[tasks[t].kids[1]].res
            h == hashExpression(e)
            path == <<"glueson-", ToString(now), "-">> \o h
            n == Len(tasks) IN
        /\ clock' = now
        /\ tasks' = [tasks EXCEPT ![t] = [Calling(tasks[t], e) EXCEPT !.pc = "exec",
                                                                   !.kids = <<n + 1>>]]
                    \o <<[Task("tempfile", "write", FALSE, e) EXCEPT !.res = Text(path)]>>
        /\ runs' = Bump(h)
    /\ UNCHANGED <<doc, root, cache, procs, files, tempFiles, pstatus, output, pass,
                   first>>

\* writeFile completes: the path is registered and returned
writeDone(t) ==
    /\ Idle
    /\ Running(t, "tempfile", "write")
    /\ files' = files \cup {[path |-> tasks[t].res.s,
                             content |-> GetKey(tasks[t].g, <<"content">>).s]}
    /\ tempFiles' = tempFiles \cup {tasks[t].res.s}
    /\ tasks' = [tasks EXCEPT ![t] = Ok(tasks[t], tasks[t].res)]
    /\ UNCHANGED <<doc, root, cache, procs, runs, clock, pstatus, output, pass, first>>

(***************************************************************************)
(* The main program                                                        *)
(***************************************************************************)
\* console.log of the resolved document
mainPrint ==
    /\ Quiet
    /\ pstatus = "running"
    /\ tasks[root].st = "ok"
    /\ output' = tasks[root].res
    /\ pstatus' = "printed"
    /\ UNCHANGED <<doc, tasks, root, cache, procs, runs, clock, files, tempFiles,
                   pass, first>>

\* the top-level await throws: the process ends with the error
mainCrash ==
    /\ pstatus = "running"
    /\ tasks[root].st = "err"
    /\ pstatus' = "crashed"
    /\ UNCHANGED <<doc, tasks, root, cache, procs, runs, clock, files, tempFiles,
                   output, pass, first>>

\* The main program after console.log: the handler of "exit" is registered,
\* and once nothing is left to wait for the process exits and the handler
\* removes every registered file.
mainExit ==
    /\ pstatus = "printed"
    /\ \A p \in 1..Len(procs) : procs[p].st # "running"
    /\ files' = {f \in files : f.path \notin tempFiles}
    /\ pstatus' = "exited"
    /\ UNCHANGED <<doc, tasks, root, cache, procs, runs, clock, tempFiles, output,
                   pass, first>>

\* resolveGlueson (it is exported) called on what it returned
resolveAgain ==
    /\ pstatus = "printed"
    /\ pass = 1
    /\ pass' = 2
    /\ first' = [out |-> output, runs |-> runs]
    /\ tasks' = Append(tasks, Task("resolve", "rv", TRUE, output))
    /\ root' = Len(tasks) + 1
    /\ pstatus' = "running"
    /\ UNCHANGED <<doc, cache, procs, runs, clock, files, tempFiles, output>>

(***************************************************************************)
(* Documents                                                               *)
(***************************************************************************)
G(op, fs) == Obj(<<F("_glueson", Str(op))>> \o fs)

\* execute expressions
Date == G("execute", <<F("command", Str("date"))>>)
EchoV(ps) == G("execute", <<F("command", Text(<<"echo", " ", "$", "v">>)), F("params", ps)>>)
EchoX == EchoV(Obj(<<F("v", Str("x"))>>))
DateXY == G("execute", <<F("command", Str("date")),
                         F("params", Obj(<<F("x", Str("a")), F("y", Str("b"))>>))>>)
DateYX == G("execute", <<F("params", Obj(<<F("y", Str("b")), F("x", Str("a"))>>)),
                         F("command", Str("date"))>>)
EchoAB == EchoV(Obj(<<F("v", Arr(<<Str("a"), Str("b")>>))>>))
EchoBA == EchoV(Obj(<<F("v", Arr(<<Str("b"), Str("a")>>))>>))
FalseCmd == G("execute", <<F("command", Str("false"))>>)
FalseLog == G("execute", <<F("command", Str("false")), F("log", True)>>)
EchoLog == G("execute", <<F("command", Text(<<"echo", " ", "hi">>)), F("log", True)>>)
Cat(in) == G("execute", <<F("command", Str("cat")), F("stdin", in)>>)
Missing == G("execute", <<F("command", Text(<<"echo", " ", "$", "v">>))>>)

\* the other variants
Serialize(in) == G("serialize", <<F("input", in)>>)
Parse(in) == G("parse", <<F("input", in)>>)
Get(path, in) == G("get", <<F("path", Text(path)), F("input", in)>>)
Evaluate(code, ps) == G("evaluate", <<F("code", Text(code)), F("params", ps)>>)
EvaluateLazy(code, ps) ==
    G("evaluate", <<F("code", Text(code)), F("params", ps), F("lazy", True)>>)
TemporaryFile(c) == G("temporary-file", <<F("content", c)>>)

\* the text of a value, as a document carries it in a string
TextOf(v) == Text(Stringify(v, "none"))

AB(v) == Obj(<<F("a", Obj(<<F("b", v)>>))>>)

\* The documents of the model besides the sequences of siblings.
Scenarios ==
    { \* the scenarios of get
      Get(<<"a", ".", "b">>, AB(Str("x"))),
      Get(<<"a", ".", "b">>, Obj(<<F("a", Obj(<<>>))>>)),
      Get(<<"a", ".", "b">>, Obj(<<F("a", Str("x"))>>)),
      Get(<<"a", ".", "b">>, Obj(<<>>)),
      Get(<<"a", ".", "b">>, Obj(<<F("a", Null)>>)),
      Get(<<"a", ".", "b">>, Obj(<<F("a", Num("1"))>>)),
      Get(<<"a", ".", "b", ".", "c">>, AB(False)),
      Get(<<"0", ".", "b">>, Arr(<<Str("x")>>)),
      Obj(<<F("k", Get(<<"a", ".", "b">>, Obj(<<F("a", Null)>>))), F("c", EchoX)>>),
      Get(<<"a">>, Parse(TextOf(Obj(<<F("a", Num("1"))>>)))),
      Get(<<"a", ".", "b">>, Obj(<<F("a", Parse(TextOf(Obj(<<F("b", Num("1"))>>))))>>)),
      Get(<<"a">>, Obj(<<F("a", Serialize(Num("1")))>>)),
      \* parse, serialize, evaluate
      Parse(TextOf(Arr(<<Num("1"), Obj(<<F("k", True)>>)>>))),
      Parse(TextOf(EchoX)),
      Parse(TextOf(Obj(<<F("k", Serialize(Num("1")))>>))),
      Parse(Text(<<"{">>)),
      Parse(Num("1")),
      Serialize(Obj(<<F("k", Arr(<<Str("a"), Null>>)), F("c", EchoX)>>)),
      Evaluate(<<"x">>, Obj(<<F("x", Serialize(Num("1")))>>)),
      Evaluate(TextOf(Serialize(Str("a"))).s, Undef),
      EvaluateLazy(<<"x">>, Obj(<<F("x", Obj(<<F("k", Serialize(Num("1")))>>))>>)),
      Evaluate(<<"y">>, Obj(<<F("x", Num("1"))>>)),
      \* evaluate code that resolves a binding on demand
      Evaluate(<<"get(", "x", ")">>, Obj(<<F("x", Serialize(Num("1")))>>)),
      EvaluateLazy(<<"get(", "x", ")">>, Obj(<<F("x", Serialize(Num("1")))>>)),
      EvaluateLazy(<<"get(", "x", ")">>, Obj(<<F("x", Parse(Num("1")))>>)),
      EvaluateLazy(<<"get(", "x", ")", ".catch(()=>", "1", ")">>,
                   Obj(<<F("x", Parse(Num("1")))>>)),
      EvaluateLazy(<<"get(", "x", ")", ".catch(()=>", "1", ")">>,
                   Obj(<<F("x", Get(<<"a", ".", "b">>, Obj(<<F("a", Str("x"))>>)))>>)),
      EvaluateLazy(<<"get(", "x", ")", ".catch(()=>", "1", ")">>,
                   Obj(<<F("x", Parse(Str("2")))>>)),
      \* evaluate with expressions in params that the code needs or not
      EvaluateLazy(<<"1">>, Obj(<<F("x", EchoX), F("y", Obj(<<F("k", Date)>>))>>)),
      Evaluate(<<"1">>, Obj(<<F("x", EchoX), F("y", Obj(<<F("k", Serialize(Num("1")))>>))>>)),
      EvaluateLazy(<<"get(", "x", ")">>, Obj(<<F("x", Serialize(Num("1"))), F("y", EchoX)>>)),
      EvaluateLazy(<<"get(", "x", ",[", "a", "])">>,
                   Obj(<<F("x", Obj(<<F("a", Serialize(Num("1"))), F("b", EchoX)>>)),
                         F("y", Date)>>)),
      EvaluateLazy(<<"get(", "x", ",[", "a", "b", "])">>,
                   Obj(<<F("x", Parse(TextOf(Obj(<<F("a", Obj(<<F("b", EchoX)>>)),
                                                   F("c", Date)>>)))),
                         F("y", Obj(<<F("a", AB(Date))>>))>>)),
      EvaluateLazy(<<"get(", "x", ",[", "a", "b", "])">>,
                   Obj(<<F("x", Obj(<<F("a", Str("x")), F("b", EchoX)>>))>>)),
      Evaluate(<<"get(", "x", ",[", "a", "])">>,
               Obj(<<F("x", Obj(<<F("a", Serialize(Num("1"))), F("b", EchoX)>>))>>)),
      \* two equal expressions of a variant that is not execute
      Arr(<<Serialize(Str("a")), Serialize(Str("a"))>>),
      Arr(<<Parse(Str("1")), Parse(Str("1"))>>),
      Arr(<<TemporaryFile(Str("a")), TemporaryFile(Str("a"))>>),
      Arr(<<Get(<<"a">>, Obj(<<F("a", Num("1"))>>)), Get(<<"a">>, Obj(<<F("a", Num("1"))>>))>>),
      Arr(<<Evaluate(<<"1">>, Undef), Evaluate(<<"1">>, Undef)>>),
      \* an expression met again after the first occurrence has completed
      Obj(<<F("a", Date), F("b", Cat(Date))>>),
      Obj(<<F("a", EchoX), F("b", Cat(Cat(Str("x"))))>>),
      \* failures
      Obj(<<F("a", FalseCmd), F("b", Cat(Cat(Str("x"))))>>),
      Arr(<<FalseLog, EchoLog>>),
      Arr(<<EchoLog, EchoX>>),
      Arr(<<Missing, Missing>>),
      G("execute", <<F("command", Str("nosuch"))>>),
      Arr(<<EchoX, G("execute", <<F("command", Text(<<"$", "c">>)),
                                  F("params", Obj(<<F("c", Num("1"))>>))>>)>>),
      Obj(<<F("a", TemporaryFile(Str("a"))), F("b", FalseCmd)>>),
      G("execute", <<F("command", Str("false")), F("stdin", TemporaryFile(Str("a")))>>),
      Obj(<<F("a", TemporaryFile(Str("a"))), F("b", Parse(Num("1")))>>),
      Cat(TemporaryFile(Str("a"))),
      Arr(<<EchoAB, EchoBA, EchoAB>>),
      Obj(<<F("k", G("nothing", <<>>)), F("c", Str("x"))>>),
      Obj(<<F("k", G("toString", <<F("command", Str("date"))>>)), F("c", EchoX)>>),
      Obj(<<F("k", G("constructor", <<F("content", Str("a"))>>)), F("c", Str("x"))>>),
      Obj(<<F("k", Obj(<<F("_glueson", Num("1")), F("command", Str("date"))>>))>>),
      Obj(<<F("k", Obj(<<F("_glueson", Arr(<<Str("execute")>>)),
                         F("command", Str("date"))>>))>>),
      \* execute expressions that differ in defaults, in fields no validator
      \* reads and in how a field's value is produced
      Arr(<<Date,
            G("execute", <<F("command", Str("date")), F("params", Obj(<<>>)),
                           F("stdin", Text(<<>>)), F("log", False), F("env", Obj(<<>>))>>),
            G("execute", <<F("command", Str("date")), F("k", Num("1"))>>),
            G("execute", <<F("command", Get(<<"a">>, Obj(<<F("a", Str("date"))>>))),
                           F("params", Null)>>)>>),
      Arr(<<G("execute", <<F("command", Str("date")), F("stdin", Text(<<"1">>))>>),
            G("execute", <<F("stdin", Serialize(Num("1"))), F("command", Str("date")),
                           F("c", Date)>>)>>),
      \* texts that hold expressions
      Parse(TextOf(Parse(TextOf(Get(<<"a">>, Obj(<<F("a", Num("1"))>>)))))),
      Parse(TextOf(G("execute", <<F("command", Str("cat"))>>))),
      Obj(<<F("k", Parse(Get(<<"a">>, Obj(<<F("a", TextOf(Get(<<"b">>, Str("x"))))>>))))>>),
      \* expressions in several fields of one expression
      G("execute", <<F("command", Get(<<"a">>, Obj(<<F("a", Str("date"))>>))),
                     F("params", Obj(<<F("v", EchoX)>>)),
                     F("stdin", Serialize(Num("1"))),
                     F("log", Parse(Str("false"))),
                     F("env", Obj(<<F("k", Get(<<"a">>, Obj(<<F("a", Str("x"))>>)))>>))>>),
      G("execute", <<F("command", Parse(Str("1"))), F("params", Obj(<<F("v", EchoX)>>)),
                     F("stdin", Date)>>),
      G("execute", <<F("command", Str("date")), F("params", Parse(Str("1"))),
                     F("stdin", EchoX)>>),
      G("execute", <<F("command", Str("date")), F("log", Parse(Str("1"))),
                     F("env", Obj(<<F("k", EchoX)>>))>>),
      G("evaluate", <<F("code", Parse(Str("1"))), F("lazy", EchoX),
                      F("params", Obj(<<F("x", Date)>>))>>),
      G("evaluate", <<F("code", Serialize(Num("1"))), F("lazy", Parse(Str("1"))),
                      F("params", Date)>>),
      \* plain documents
      Obj(<<F("b", Arr(<<Num("1"), Null, Obj(<<>>)>>)), F("a", Str("x"))>>),
      Str("x") }

\* The width of the sequences of sibling expressions.
MaxSiblings == 3

Siblings == {Date, DateXY, DateYX}

SiblingDocs ==
    UNION {{Arr(xs) : xs \in [1..n -> Siblings]} : n \in 2..MaxSiblings}

Documents == Scenarios \cup SiblingDocs

(***************************************************************************)
(* The specification                                                       *)
(***************************************************************************)
Init ==
    /\ doc \in Documents
    /\ tasks = <<Task("resolve", "rv", TRUE, doc)>>
    /\ root = 1
    /\ cache = <<>>
    /\ procs = <<>>
    /\ runs = <<>>
    /\ clock = 0
    /\ files = {}
    /\ tempFiles = {}
    /\ pstatus = "running"
    /\ output = Undef
    /\ pass = 1
    /\ first = [out |-> Undef, runs |-> <<>>]

Next ==
    \/ \E t \in 1..Len(tasks) : resolveValueParse(t)
    \/ \E t \in 1..Len(tasks) : parserStep(t)
    \/ \E t \in 1..Len(tasks) : resolveGlueson(t)
    \/ \E t \in 1..Len(tasks) : join(t)
    \/ \E t \in 1..Len(tasks) : parseFailed(t)
    \/ \E t \in 1..Len(tasks) : callGet(t)
    \/ \E t \in 1..Len(tasks) : callParse(t)
    \/ \E t \in 1..Len(tasks) : callSerialize(t)
    \/ \E t \in 1..Len(tasks) : callExecute(t)
    \/ \E t \in 1..Len(tasks) : executeDone(t)
    \/ \E t \in 1..Len(tasks) : awaitExecutor(t)
    \/ \E t \in 1..Len(tasks) : callEvaluate(t)
    \/ \E t \in 1..Len(tasks) : evaluateRun(t)
    \/ \E t \in 1..Len(tasks) : evaluateGet(t)
    \/ \E t \in 1..Len(tasks) : callTemporaryFile(t)
    \/ \E t \in 1..Len(tasks) : writeDone(t)
    \/ \E p \in 1..Len(procs) : procExit(p)
    \/ \E p \in 1..Len(procs) : spawnError(p)
    \/ \E t \in 1..Len(tasks) : launchFailed(t)
    \/ mainPrint
    \/ mainCrash
    \/ mainExit
    \/ resolveAgain

Spec == Init /\ [][Next]_vars

(***************************************************************************)
(* The specification of the fingerprints: documents of two sibling execute *)
(* expressions whose params, stdin and env carry two values of one shape.  *)
(***************************************************************************)
\* The number of atoms the values are built from.
MaxAtoms == 2

AtomNames == <<"a", "b", "c">>

Atoms == {Str(AtomNames[i]) : i \in 1..MaxAtoms}

KeyOrders == {<<"x", "y">>, <<"y", "x">>}

\* the values of each shape, and those among them that the first sibling takes
Maps(orders) == {Obj(<<F(ks[1], a), F(ks[2], b)>>) : a \in Atoms, b \in Atoms, ks \in orders}

Seqs == {Arr(<<a, b>>) : a \in Atoms, b \in Atoms}

SeqsOfMaps(orders) ==
    {Arr(<<Obj(<<F(ks[1], a), F(ks[2], Str("b"))>>), Str("a")>>) : a \in Atoms, ks \in orders}
    \cup {Arr(<<Str("a"), Obj(<<F(ks[1], a), F(ks[2], Str("b"))>>)>>) : a \in Atoms, ks \in orders}

MapsOfSeqs(orders) ==
    {Obj(<<F(ks[1], Arr(<<a, Str("b")>>)), F(ks[2], Str("a"))>>) : a \in Atoms, ks \in orders}
    \cup {Obj(<<F(ks[1], Arr(<<Str("b"), a>>)), F(ks[2], Str("a"))>>) : a \in Atoms, ks \in orders}

Shapes ==
    {<<Maps({<<"x", "y">>}), Maps(KeyOrders)>>,
     <<Seqs, Seqs>>,
     <<SeqsOfMaps({<<"x", "y">>}), SeqsOfMaps(KeyOrders)>>,
     <<MapsOfSeqs({<<"x", "y">>}), MapsOfSeqs(KeyOrders)>>}

\* "cat" of the value, which is also the params when it is a mapping and the
\* env when it is a mapping of strings
CatOf(v) ==
    G("execute", <<F("command", Str("cat"))>>
                 \o (IF v.t = "obj" THEN <<F("params", v)>> ELSE <<>>)
                 \o <<F("stdin", v)>>
                 \o (IF v \in Maps(KeyOrders) THEN <<F("env", v)>> ELSE <<>>))

HashDocs == UNION {{Arr(<<CatOf(v), CatOf(w)>>) : v \in S[1], w \in S[2]} : S \in Shapes}

InitHash ==
    /\ doc \in HashDocs
    /\ tasks = <<Task("resolve", "rv", TRUE, doc)>>
    /\ root = 1
    /\ cache = <<>>
    /\ procs = <<>>
    /\ runs = <<>>
    /\ clock = 0
    /\ files = {}
    /\ tempFiles = {}
    /\ pstatus = "running"
    /\ output = Undef
    /\ pass = 1
    /\ first = [out |-> Undef, runs |-> <<>>]

\* the steps these documents take
NextHash ==
    \/ \E t \in 1..Len(tasks) : resolveValueParse(t)
    \/ \E t \in 1..Len(tasks) : parserStep(t)
    \/ \E t \in 1..Len(tasks) : resolveGlueson(t)
    \/ \E t \in 1..Len(tasks) : join(t)
    \/ \E t \in 1..Len(tasks) : callExecute(t)
    \/ \E t \in 1..Len(tasks) : executeDone(t)
    \/ \E t \in 1..Len(tasks) : awaitExecutor(t)
    \/ \E p \in 1..Len(procs) : procExit(p)
    \/ mainPrint

SpecHash == InitHash /\ [][NextHash]_vars

(***************************************************************************)
(* getValue, over the nodes whose expressions are a parse of a JSON text   *)
(* or a serialize of a primitive: their fields are literal and their       *)
(* executors return without suspending.                                    *)
(***************************************************************************)
RECURSIVE resolveValueNow(_)
\* resolveValue: the loop that executes a node while it is an expression
resolveValueNow(v) ==
    IF isExpression(v) /\ OperationOf(v) = "parse" /\ GetKey(v, <<"input">>).t = "str"
          /\ JsonParse(GetKey(v, <<"input">>).s).ok
    THEN resolveValueNow(JsonParse(GetKey(v, <<"input">>).s).val)
    ELSE IF isExpression(v) /\ OperationOf(v) = "serialize"
              /\ IsPrimitive(GetKey(v, <<"input">>)) /\ GetKey(v, <<"input">>) # Undef
         THEN Text(Stringify(GetKey(v, <<"input">>), "none"))
    ELSE v

RECURSIVE getValue(_, _)
getValue(glueson, path) ==
    LET value == resolveValueNow(glueson) IN
    IF path = <<>> THEN Returned(value)
    ELSE IF TypeOf(value) # "object"
         THEN Threw(<<"cannot get property", Head(path), "of non-object">>)
    ELSE IF value = Null
         THEN Threw(<<"TypeError: Cannot read properties of null (reading", Head(path), ")">>)
    ELSE getValue(Member(value, Head(path)), Tail(path))

(***************************************************************************)
(* Properties                                                              *)
(***************************************************************************)
Resolvers == {t \in 1..Len(tasks) : tasks[t].fn = "resolve"}

\* the resolvers whose last executed expression is of the variant op
Requests(op) == {t \in Resolvers : OperationOf(tasks[t].req) = op}

\* the child processes spawned for the fingerprint h
SpawnsOf(h) == {p \in 1..Len(procs) : procs[p].h = h}

\* the validators that returned the expression e
ValidatorsOf(e) ==
    {q \in 1..Len(tasks) : tasks[q].fn = "parser" /\ tasks[q].st = "ok" /\ tasks[q].res = e}

RECURSIVE HasExpression(_)
\* a mapping with the key _glueson, at any depth
HasExpression(v) ==
    CASE v.t = "arr" -> \E i \in 1..Len(v.items) : HasExpression(v.items[i])
      [] v.t = "obj" ->
            isExpression(v) \/ \E i \in 1..Len(v.fields) : HasExpression(v.fields[i][2])
      [] OTHER -> FALSE

RECURSIVE KeyEquiv(_, _)
\* equal but for the order of the keys of mappings, at any depth
KeyEquiv(a, b) ==
    IF a.t # b.t THEN FALSE
    ELSE CASE a.t = "arr" ->
                /\ Len(a.items) = Len(b.items)
                /\ \A i \in 1..Len(a.items) : KeyEquiv(a.items[i], b.items[i])
           [] a.t = "obj" ->
                /\ Len(a.fields) = Len(b.fields)
                /\ \A i \in 1..Len(a.fields) :
                      /\ HasKey(b, a.fields[i][1])
                      /\ KeyEquiv(a.fields[i][2], GetKey(b, a.fields[i][1]))
           [] OTHER -> a = b

RECURSIVE PermEquiv(_, _)
\* equal but for the order of the keys of mappings and of the elements of
\* sequences, at any depth
PermEquiv(a, b) ==
    IF a.t # b.t THEN FALSE
    ELSE CASE a.t = "arr" ->
                /\ Len(a.items) = Len(b.items)
                /\ \E f \in [1..Len(a.items) -> 1..Len(a.items)] :
                      /\ \A i, j \in 1..Len(a.items) : f[i] = f[j] => i = j
                      /\ \A i \in 1..Len(a.items) : PermEquiv(a.items[i], b.items[f[i]])
           [] a.t = "obj" ->
                /\ Len(a.fields) = Len(b.fields)
                /\ \A i \in 1..Len(a.fields) :
                      /\ HasKey(b, a.fields[i][1])
                      /\ PermEquiv(a.fields[i][2], GetKey(b, a.fields[i][1]))
           [] OTHER -> a = b

Reverse(xs) == [i \in 1..Len(xs) |-> xs[Len(xs) + 1 - i]]

RECURSIVE PathAbsent(_, _)
\* walking the properties from node through mappings, one of them is no key
\* of the mapping reached
PathAbsent(node, properties) ==
    IF properties = <<>> THEN FALSE
    ELSE IF node.t # "obj" THEN FALSE
    ELSE IF ~HasKey(node, Head(properties)) THEN TRUE
    ELSE PathAbsent(GetKey(node, Head(properties)), Tail(properties))

\* C1: execute expressions whose validated forms have one fingerprint spawn
\* one child process between them, however many their occurrences and
\* whether they are met while the child runs or after it, and every
\* occurrence receives the same result.
SingleFlight ==
    \A t \in Requests("execute") :
        LET h == hashExpression(tasks[t].req)
            spawned == Cardinality({p \in 1..Len(procs) : procs[p].h = h}) IN
        /\ spawned <= 1
        /\ tasks[t].got =>
              /\ spawned = 1
              /\ \A u \in Requests("execute") :
                    (tasks[u].got /\ tasks[u].rcv # tasks[t].rcv)
                        => hashExpression(tasks[u].req) # h

\* Two sibling occurrences written with different key orders, both validated
\* before the executor settled, have both received the result of one child.
SingleFlightWitness ==
    \E t, u \in Requests("execute") :
        /\ t # u
        /\ tasks[t].arg # tasks[u].arg
        /\ hashExpression(tasks[t].req) = hashExpression(tasks[u].req)
        /\ tasks[t].got /\ tasks[u].got
        /\ tasks[t].rcv = tasks[u].rcv
        /\ Cardinality(SpawnsOf(hashExpression(tasks[t].req))) = 1
        /\ \E q \in ValidatorsOf(tasks[t].req), r \in ValidatorsOf(tasks[u].req) :
              /\ q # r
              /\ tasks[q].at < tasks[cache[hashExpression(tasks[t].req)]].at
              /\ tasks[r].at < tasks[cache[hashExpression(tasks[t].req)]].at

\* C2: whatever the variant, no executor is entered twice for one
\* fingerprint in a run.
AtMostOncePerFingerprint == \A h \in DOMAIN runs : runs[h] <= 1

ShapePreserved ==
    \A t \in Resolvers :
        LET me == tasks[t] IN
        (me.deep /\ me.st = "ok" /\ me.g.t \in {"arr", "obj"}) =>
            /\ me.res.t = me.g.t
            /\ Len(Items(me.res)) = Len(Items(me.g))
            /\ Len(me.kids) = Len(Items(me.g))
            /\ me.g.t = "obj" =>
                  \A i \in 1..Len(me.g.fields) : me.res.fields[i][1] = me.g.fields[i][1]
            /\ \A i \in 1..Len(Items(me.g)) :
                  IF me.kids[i] = 0 THEN Items(me.res)[i] = Items(me.g)[i]
                  ELSE /\ tasks[me.kids[i]].arg = Items(me.g)[i]
                       /\ Items(me.res)[i] = tasks[me.kids[i]].res

\* A sequence has been resolved whose later element settled before an
\* earlier one, to a different result.
ShapePreservedWitness ==
    \E t \in Resolvers :
        /\ tasks[t].deep /\ tasks[t].st = "ok" /\ tasks[t].g.t = "arr"
        /\ \E i, j \in 1..Len(tasks[t].kids) :
              /\ i < j
              /\ tasks[t].kids[i] # 0 /\ tasks[t].kids[j] # 0
              /\ tasks[tasks[t].kids[j]].at < tasks[tasks[t].kids[i]].at
              /\ tasks[t].res.items[i] # tasks[t].res.items[j]
              /\ tasks[t].res.items[i] = tasks[tasks[t].kids[i]].res

\* C5: validated expressions that are equal but for the order of the keys
\* of their mappings (the top-level fields, the mappings of params, env and
\* stdin, the mappings inside sequences) have one fingerprint, and one child
\* process serves them.
KeyOrderIndependent ==
    \A t \in Requests("execute") :
        LET a == tasks[t].req IN
        /\ hashExpression(Obj(Reverse(a.fields))) = hashExpression(a)
        /\ \A u \in Requests("execute") :
              LET b == tasks[u].req IN
              KeyEquiv(a, b) =>
                  /\ hashExpression(a) = hashExpression(b)
                  /\ cache[hashExpression(a)] = cache[hashExpression(b)]
                  /\ (tasks[t].got /\ tasks[u].got) =>
                        Cardinality(SpawnsOf(hashExpression(a))
                                    \cup SpawnsOf(hashExpression(b))) = 1

\* Two different validated expressions, equal but for the key order of a
\* mapping inside a sequence, have received the output of one child.
KeyOrderIndependentWitness ==
    \E t, u \in Requests("execute") :
        /\ tasks[t].req # tasks[u].req
        /\ KeyEquiv(tasks[t].req, tasks[u].req)
        /\ GetKey(tasks[t].req, <<"stdin">>).t = "arr"
        /\ tasks[t].got /\ tasks[u].got
        /\ Len(procs) = 1

\* C6: validated expressions that differ in the order of the elements of a
\* sequence have different fingerprints and different cache entries, and a
\* child process is spawned for each.
SequenceOrderSensitive ==
    \A t, u \in Requests("execute") :
        LET a == tasks[t].req
            b == tasks[u].req IN
        (PermEquiv(a, b) /\ ~KeyEquiv(a, b)) =>
            /\ hashExpression(a) # hashExpression(b)
            /\ cache[hashExpression(a)] # cache[hashExpression(b)]
            /\ SpawnsOf(hashExpression(a)) \cap SpawnsOf(hashExpression(b)) = {}
            /\ tasks[t].got => SpawnsOf(hashExpression(a)) # {}
            /\ tasks[u].got => SpawnsOf(hashExpression(b)) # {}

\* Two validated expressions whose sequences hold the same elements in
\* another order have each received the output of a child of their own.
SequenceOrderSensitiveWitness ==
    \E t, u \in Requests("execute") :
        /\ PermEquiv(tasks[t].req, tasks[u].req)
        /\ ~KeyEquiv(tasks[t].req, tasks[u].req)
        /\ tasks[t].got /\ tasks[u].got
        /\ tasks[t].rcv # tasks[u].rcv
        /\ Len(procs) = 2

\* C7: a get whose path has a segment that is no key of the mapping reached
\* at that step never returns a value, and path a.b on {"a":{"b":"x"}}
\* returns "x".
GetRequiresPath ==
    \A t \in Requests("get") :
        LET input == GetKey(tasks[t].req, <<"input">>)
            properties == Split(GetKey(tasks[t].req, <<"path">>).s, ".") IN
        /\ (~HasExpression(input) /\ PathAbsent(input, properties)) => ~tasks[t].got
        /\ (input = AB(Str("x")) /\ properties = <<(<<"a">>), (<<"b">>)>> /\ tasks[t].got)
              => tasks[t].rcv = Str("x")

\* C8: a get whose input, or a node on its path, is an expression node
\* returns the value at the path in the resolved input.
GetResolvesAsItWalks ==
    \A t \in Requests("get") :
        LET input == GetKey(tasks[t].req, <<"input">>)
            properties == Split(GetKey(tasks[t].req, <<"path">>).s, ".") IN
        (HasExpression(input) /\ getValue(input, properties).ok /\ tasks[t].got) =>
            resolveValueNow(tasks[t].rcv) = getValue(input, properties).val

\* C9: the resolution of a parse expression of a literal text returns the
\* parsed node as it is; when the document is that expression, no child is
\* spawned and no executor but that of parse is entered.
ParseOnlyParses ==
    \A t \in Resolvers :
        LET e == tasks[t].arg
            input == GetKey(e, <<"input">>) IN
        (OperationOf(e) = "parse" /\ input.t = "str") =>
            /\ tasks[t].st = "ok" => tasks[t].res = JsonParse(input.s).val
            /\ e = doc =>
                  /\ procs = <<>>
                  /\ \A h \in DOMAIN runs : h = hashExpression(Validated("parse", <<input>>))

\* C10: once a child has exited with a nonzero code, with or without log,
\* its executor returns nothing, no document is or has been printed, and
\* the process that exits on it has printed none.
NonzeroExitIsFatal ==
    /\ \A x \in 1..Len(tasks) :
          (/\ tasks[x].fn = "execute"
           /\ tasks[x].proc # 0
           /\ procs[tasks[x].proc].st = "exited"
           /\ procs[tasks[x].proc].code # 0) =>
              /\ tasks[x].st = "run"
              /\ pstatus \in {"running", "exit1", "crashed"}
              /\ output = Undef
              /\ pass = 1
    /\ pstatus = "exit1" =>
          /\ output = Undef
          /\ \E p \in 1..Len(procs) : procs[p].st = "exited" /\ procs[p].code # 0

\* The process has exited with 1 on a child run under log while the child of
\* a sibling was still running.
NonzeroExitIsFatalWitness ==
    /\ pstatus = "exit1"
    /\ output = Undef
    /\ \E p, q \in 1..Len(procs) :
          /\ procs[p].st = "exited" /\ procs[p].code # 0 /\ procs[p].log
          /\ procs[q].st = "running"

\* the executors of execute that have returned
ExecutorsDone == {x \in 1..Len(tasks) : tasks[x].fn = "execute" /\ tasks[x].st = "ok"}

ArgCommands ==
    {<<"echo", " ", "$", "v">>,
     <<" ", "echo", " ", " ", "$", "v", " ", "x">>,
     <<"$", "c", " ", "$", "v">>,
     <<"echo", " ", "$", "v", " ", "$", "w">>,
     <<"echo", " ", "$", "v", "$", "w">>}

ArgValues ==
    {Str("a"),
     Text(<<"a", " ", "b">>),
     Text(<<"$", "w">>),
     Arr(<<Str("a"), Str("b")>>),
     Arr(<<>>),
     Arr(<<Text(<<"a", " ", "b">>), Text(<<"$", "w">>)>>)}

ArgDocs ==
    {G("execute", <<F("command", Text(c)),
                    F("params", Obj(<<F("c", Str("echo")), F("v", v)>> \o w))>>) :
        c \in ArgCommands, v \in ArgValues, w \in {<<>>, <<F("w", Str("b"))>>}}

\* documents whose command refers to a name that params does not have
MissingDocs ==
    {G("execute", <<F("command", Text(<<"echo", " ", "$", n>>))>> \o ps) :
        n \in {"v", "constructor", "toString"},
        ps \in {<<>>, <<F("params", Obj(<<>>))>>, <<F("params", Obj(<<F("w", Str("b"))>>))>>}}

\* documents of one execute expression that copies its input: each kind of
\* value a stdin can resolve to
StdinValues ==
    {Str("x"), Text(<<>>), Num("0"), Num("1"), False, True, Null,
     Arr(<<>>), Arr(<<Num("0"), Str("a")>>), Obj(<<>>), Obj(<<F("k", False)>>),
     Serialize(Num("0")), Parse(Str("0")), Parse(Str("false"))}

StdinDocs ==
    {Cat(v) : v \in StdinValues}
        \cup {G("execute", <<F("command", Str("cat"))>>),
              G("execute", <<F("command", Str("echo")), F("stdin", Num("0"))>>)}

\* documents of one execute expression with one field set to each kind of
\* value, the other fields as they should be
FieldValues ==
    {Str("x"), Num("1"), Num("0"), True, Null, Arr(<<>>), Arr(<<Str("a")>>),
     Arr(<<Num("1")>>), Obj(<<>>), Obj(<<F("k", Str("a"))>>), Obj(<<F("k", Num("1"))>>),
     Obj(<<F("k", Null)>>), Obj(<<F("k", Str("a")), F("l", Arr(<<Str("a")>>))>>),
     Parse(Str("1")), Parse(Text(<<"[", "]">>))}

FieldDocs ==
    {G("execute", <<F("command", Text(<<"echo", " ", "hi">>)), F(n, v)>>) :
        n \in {"log", "env"}, v \in FieldValues}
    \cup {G("execute", <<F("command", v)>>) : v \in FieldValues \ {Str("x")}}
    \cup {G("execute", <<F("log", True)>>)}

\* documents of one execute expression whose params is each kind of value
\* and each kind of mapping
ParamValues ==
    {Str("x"), Num("1"), True, Arr(<<Str("a")>>),
     Obj(<<F("v", Num("1"))>>), Obj(<<F("v", False)>>), Obj(<<F("v", Null)>>),
     Obj(<<F("v", Obj(<<F("k", Str("a"))>>))>>),
     Obj(<<F("v", Arr(<<Str("a"), Num("1")>>))>>),
     Obj(<<F("v", Arr(<<Arr(<<Str("a"), Str("b")>>)>>))>>),
     Obj(<<F("v", Str("a")), F("w", Num("1"))>>),
     Obj(<<F("v", Parse(Str("1")))>>)}

ParamDocs == {EchoV(ps) : ps \in ParamValues}

\* documents of one execute expression whose executable cannot be started
LaunchDocs ==
    {G("execute", <<F("command", Text(c)), F("params", Obj(<<F("c", v)>>))>>) :
        c \in {<<"nosuch">>, <<"nosuch", " ", "x">>, <<"$", "c">>, <<"$", "c", " ", "x">>},
        v \in {Str("nosuch"), Num("1"), True, Obj(<<>>)}}

InitArgs ==
    /\ doc \in ArgDocs \cup MissingDocs \cup StdinDocs \cup FieldDocs \cup ParamDocs
                \cup LaunchDocs
    /\ tasks = <<Task("resolve", "rv", TRUE, doc)>>
    /\ root = 1
    /\ cache = <<>>
    /\ procs = <<>>
    /\ runs = <<>>
    /\ clock = 0
    /\ files = {}
    /\ tempFiles = {}
    /\ pstatus = "running"
    /\ output = Undef
    /\ pass = 1
    /\ first = [out |-> Undef, runs |-> <<>>]

\* the steps these documents take
NextArgs ==
    \/ \E t \in 1..Len(tasks) : resolveValueParse(t)
    \/ \E t \in 1..Len(tasks) : parserStep(t)
    \/ \E t \in 1..Len(tasks) : resolveGlueson(t)
    \/ \E t \in 1..Len(tasks) : join(t)
    \/ \E t \in 1..Len(tasks) : parseFailed(t)
    \/ \E t \in 1..Len(tasks) : callParse(t)
    \/ \E t \in 1..Len(tasks) : callSerialize(t)
    \/ \E t \in 1..Len(tasks) : callExecute(t)
    \/ \E t \in 1..Len(tasks) : executeDone(t)
    \/ \E t \in 1..Len(tasks) : awaitExecutor(t)
    \/ \E p \in 1..Len(procs) : procExit(p)
    \/ \E p \in 1..Len(procs) : spawnError(p)
    \/ \E t \in 1..Len(tasks) : launchFailed(t)
    \/ mainPrint
    \/ mainCrash

SpecArgs == InitArgs /\ [][NextArgs]_vars

RECURSIVE Flat(_)
Flat(pieces) == IF pieces = <<>> THEN <<>> ELSE Head(pieces) \o Flat(Tail(pieces))

\* the tokens of a command: its runs of symbols between spaces
Tokens(command) == SelectNonEmpty(Split(command.s, " "))

\* what a token stands for: itself, or the elements or the value of the
\* entry of params that it names
Piece(tok, params) ==
    IF tok[1] # "$" THEN <<Text(tok)>>
    ELSE IF GetKey(params, Tail(tok)).t = "arr" THEN GetKey(params, Tail(tok)).items
    ELSE <<GetKey(params, Tail(tok))>>

\* the command of the expression e has a token $name and params has no
\* entry name
MissingInput(e) ==
    \E k \in 1..Len(Tokens(GetKey(e, <<"command">>))) :
        LET tok == Tokens(GetKey(e, <<"command">>))[k] IN
        tok[1] = "$" /\ ~HasKey(GetKey(e, <<"params">>), Tail(tok))

\* the executors of execute that spawned a child
Spawners == {x \in 1..Len(tasks) : tasks[x].fn = "execute" /\ tasks[x].proc # 0}

\* C12: the executable and the arguments of a child are, in order, what the
\* tokens of the command stand for: a literal token itself, a reference the
\* elements of a sequence or the one scalar it names, each substituted value
\* taken whole and as it is.
ArgumentsBuilt ==
    /\ \A x \in {y \in Spawners : ~MissingInput(tasks[y].g)} :
          LET command == GetKey(tasks[x].g, <<"command">>)
              params == GetKey(tasks[x].g, <<"params">>)
              toks == Tokens(command)
              p == procs[tasks[x].proc] IN
          /\ \A k \in 1..Len(toks) : toks[k] # <<>> /\ \A i \in 1..Len(toks[k]) : toks[k][i] # " "
          /\ <<p.exe>> \o p.args = Flat([k \in 1..Len(toks) |-> Piece(toks[k], params)])
    /\ \A p \in 1..Len(procs) :
          (doc = G("execute", <<F("command", Text(<<" ", "echo", " ", " ", "$", "v", " ", "x">>)),
                                F("params", Obj(<<F("c", Str("echo")),
                                                  F("v", Arr(<<Text(<<"a", " ", "b">>),
                                                               Text(<<"$", "w">>)>>)),
                                                  F("w", Str("b"))>>))>>))
              => /\ procs[p].exe = Str("echo")
                 /\ procs[p].args = <<Text(<<"a", " ", "b">>), Text(<<"$", "w">>), Str("x")>>

\* A child has run with one argument that holds a space and one that begins
\* with a dollar, both the elements of one sequence, and its executable was
\* named by reference.
ArgumentsBuiltWitness ==
    /\ pstatus = "printed"
    /\ GetKey(doc, <<"command">>) = Text(<<"$", "c", " ", "$", "v">>)
    /\ \E p \in 1..Len(procs) :
          /\ procs[p].st = "exited"
          /\ procs[p].exe = Str("echo")
          /\ procs[p].args = <<Text(<<"a", " ", "b">>), Text(<<"$", "w">>)>>


\* C13: the child of an execute expression whose stdin is a string that is
\* not empty has been written exactly that string and has its input closed,
\* and the child of one whose stdin is a number, a boolean, a sequence or a
\* mapping, 0 and false included, has been written the JSON text of the
\* value and has its input closed.
StdinDelivered ==
    \A x \in Spawners :
        LET stdin == GetKey(tasks[x].g, <<"stdin">>)
            p == procs[tasks[x].proc] IN
        /\ (stdin.t = "str" /\ stdin.s # <<>>) => (p.stdin = stdin.s /\ p.closed)
        /\ stdin.t \in {"num", "bool", "arr", "obj"}
              => (p.stdin = Stringify(stdin, "none") /\ p.closed)

\* The same for every stdin that a condition takes as true: all the values
\* but the empty string, 0 and false.
StdinDeliveredWhenTruthy ==
    \A x \in Spawners :
        LET stdin == GetKey(tasks[x].g, <<"stdin">>)
            p == procs[tasks[x].proc] IN
        IF Falsy(stdin) THEN p.stdin = <<>> /\ ~p.closed
        ELSE p.stdin = toJsonIfNotString(stdin) /\ p.closed


\* the tasks that have raised or passed on an error
Failed == {k \in 1..Len(tasks) : tasks[k].st = "err"}

\* C14: once a validator, an executor or a resolver at any depth has raised
\* an error, in a node of the document or in a node that evaluate code
\* resolves through get, resolveGlueson of the document returns no value and
\* no document is printed.
NoErrorRecoverable ==
    Failed # {} => (tasks[root].st # "ok" /\ pstatus # "printed")


\* C15: any two temporary-file expressions executed in one run whose
\* contents are the same text have resolved to the same path.
TempFilePathReused ==
    \A t, u \in Requests("temporary-file") :
        (/\ tasks[t].got /\ tasks[u].got
         /\ GetKey(tasks[t].req, <<"content">>) = GetKey(tasks[u].req, <<"content">>))
            => tasks[t].rcv = tasks[u].rcv


\* the process has ended: after its last handler, on process.exit(1), or on
\* an error that nothing caught
Ended == pstatus \in {"exited", "exit1", "launchfail", "crashed"}

\* C16: once the process has ended, on success or on a fatal exit, no path
\* of the registry of temporary files names a file that is still there.
TempFilesRemoved ==
    Ended => \A f \in files : f.path \notin tempFiles

\* The same for the process that ended after it printed its document.
TempFilesRemovedOnSuccess ==
    pstatus = "exited" => (tempFiles # {} => \A f \in files : f.path \notin tempFiles)


RECURSIVE StuckAt(_, _)
\* the segment that remains to be applied when the walk along a path meets a
\* string, a number, a boolean or null; <<>> when it meets none
StuckAt(node, properties) ==
    IF properties = <<>> THEN <<>>
    ELSE IF node.t \in {"str", "num", "bool", "null"} THEN <<Head(properties)>>
    ELSE IF node.t = "undef" THEN <<>>
    ELSE StuckAt(Member(node, Head(properties)), Tail(properties))

\* the message of an error names a segment: it quotes it between its words
NamesSegment(msg, seg) == Len(msg) = 3 /\ msg[2] = seg

\* C17: a get whose walk meets a string, a number, a boolean or null while a
\* segment remains returns no value and fails with an error that names that
\* segment; when the get is the document, nothing is printed.
GetFailsOnScalar ==
    \A t \in Requests("get") :
        LET input == GetKey(tasks[t].req, <<"input">>)
            properties == Split(GetKey(tasks[t].req, <<"path">>).s, ".")
            stuck == StuckAt(input, properties) IN
        stuck # <<>> =>
            /\ ~tasks[t].got
            /\ tasks[t].st = "err"
            /\ NamesSegment(tasks[t].err, stuck[1])
            /\ t = 1 => (pstatus \in {"running", "crashed"} /\ output = Undef)

\* The process has ended on a get that met null with the segment b left, and
\* the error names b.
GetFailsOnScalarWitness ==
    /\ pstatus = "crashed"
    /\ doc = Get(<<"a", ".", "b">>, Obj(<<F("a", Null)>>))
    /\ \E t \in Requests("get") :
          /\ tasks[t].st = "err" /\ ~tasks[t].got
          /\ NamesSegment(tasks[t].err, <<"b">>)



\* C18: an execute expression whose command refers to a name that params
\* does not have spawns no child and returns no value: its executor fails
\* with the error `missing input`, and the document is never resolved.
MissingInputIsFatal ==
    \A t \in Requests("execute") :
        LET h == hashExpression(tasks[t].req) IN
        MissingInput(tasks[t].req) =>
            /\ SpawnsOf(h) = {}
            /\ ~tasks[t].got
            /\ tasks[cache[h]].st = "err"
            /\ tasks[cache[h]].err[1] = "missing input"
            /\ tasks[root].st # "ok"
            /\ pstatus \in {"running", "crashed"} /\ output = Undef


\* The same for the names that no mapping inherits.
MissingInputIsFatalUnlessInherited ==
    \A t \in Requests("execute") :
        LET h == hashExpression(tasks[t].req) IN
        (/\ MissingInput(tasks[t].req)
         /\ \A k \in 1..Len(Tokens(GetKey(tasks[t].req, <<"command">>))) :
               LET tok == Tokens(GetKey(tasks[t].req, <<"command">>))[k] IN
               Len(tok) = 2 => tok[2] \notin ObjectPrototype) =>
            /\ SpawnsOf(h) = {}
            /\ ~tasks[t].got
            /\ tasks[cache[h]].st = "err"
            /\ tasks[cache[h]].err[1] = "missing input"
            /\ tasks[root].st # "ok"


\* the value a field of the document resolves to, for the fields that are
\* plain values or the parse of a JSON text
ResolvesTo(v) == IF isExpression(v) THEN resolveValueNow(v) ELSE v

\* an execute expression whose command is no string, whose log is given and
\* is no boolean, whose env is given and is no mapping, or whose env has a
\* value that is no string
BadFields(g) ==
    LET command == ResolvesTo(GetKey(g, <<"command">>))
        log == ResolvesTo(GetKey(g, <<"log">>))
        env == ResolvesTo(GetKey(g, <<"env">>)) IN
    \/ command.t # "str"
    \/ log # Undef /\ log.t # "bool"
    \/ env # Undef /\ env.t # "obj"
    \/ env.t = "obj" /\ \E i \in 1..Len(env.fields) : env.fields[i][2].t # "str"

\* C19: an execute expression with such a field is rejected by its
\* validator: no executor is called for it, it gets no cache entry and no
\* child, and it returns nothing.
ExecuteValidatorRejects ==
    \A t \in Resolvers :
        (OperationOf(tasks[t].arg) = "execute" /\ BadFields(tasks[t].arg)) =>
            /\ tasks[t].req = Undef
            /\ tasks[t].st # "ok"
            /\ tasks[t].pc = "end" => tasks[tasks[t].kids[1]].st = "err"
            /\ tasks[t].arg = doc => (cache = <<>> /\ procs = <<>> /\ output = Undef)

\* The same with a sequence of strings taken for a mapping.
ExecuteValidatorRejectsButSequences ==
    \A t \in Resolvers :
        (/\ OperationOf(tasks[t].arg) = "execute"
         /\ BadFields(tasks[t].arg)
         /\ ResolvesTo(GetKey(tasks[t].arg, <<"env">>)) \notin {Arr(<<>>), Arr(<<Str("a")>>)}) =>
            /\ tasks[t].req = Undef
            /\ tasks[t].st # "ok"
            /\ tasks[t].pc = "end" => tasks[tasks[t].kids[1]].st = "err"
            /\ tasks[t].arg = doc => (cache = <<>> /\ procs = <<>> /\ output = Undef)


\* a string or a sequence of strings
StringOrStrings(v) ==
    \/ v.t = "str"
    \/ v.t = "arr" /\ \A i \in 1..Len(v.items) : v.items[i].t = "str"

\* an execute expression whose params is given and is not a mapping of
\* strings and sequences of strings
BadParams(g) ==
    LET params == GetKey(g, <<"params">>) IN
    /\ params # Undef
    /\ \/ params.t # "obj"
       \/ params.t = "obj" /\ \E i \in 1..Len(params.fields) :
                                 ~StringOrStrings(ResolvesTo(params.fields[i][2]))

\* C20: an execute expression whose params has a value that is no string
\* and no sequence of strings is rejected by its validator: no executor is
\* called for it, no arguments are built from it and no child is spawned.
ParamsValidated ==
    \A t \in Resolvers :
        (OperationOf(tasks[t].arg) = "execute" /\ BadParams(tasks[t].arg)) =>
            /\ tasks[t].req = Undef
            /\ tasks[t].st # "ok"
            /\ tasks[t].arg = doc => (cache = <<>> /\ procs = <<>> /\ output = Undef)

\* What the validator does reject: a params that is a string, a number or a
\* boolean.
ParamsMustBeObject ==
    \A t \in Resolvers :
        (/\ OperationOf(tasks[t].arg) = "execute"
         /\ TypeOf(GetKey(tasks[t].arg, <<"params">>)) \in {"string", "number", "boolean"}) =>
            /\ tasks[t].req = Undef
            /\ tasks[t].st # "ok"
            /\ tasks[t].arg = doc => (cache = <<>> /\ procs = <<>> /\ output = Undef)


RECURSIVE Sub(_)
\* the expression nodes of a value, at any depth, itself included
Sub(v) ==
    CASE v.t = "arr" -> UNION {Sub(v.items[i]) : i \in 1..Len(v.items)}
      [] v.t = "obj" -> (IF isExpression(v) THEN {v} ELSE {})
                        \cup UNION {Sub(v.fields[i][2]) : i \in 1..Len(v.fields)}
      [] OTHER -> {}

RECURSIVE Walked(_, _)
\* the expression nodes that lie on the path walked from a node, each with
\* the expression nodes of its own fields
Walked(node, path) ==
    (IF isExpression(node) THEN Sub(node) ELSE {})
    \cup (IF path = <<>> \/ TypeOf(resolveValueNow(node)) # "object"
             \/ resolveValueNow(node) = Null
          THEN {}
          ELSE Walked(Member(resolveValueNow(node), <<Head(path)>>), Tail(path)))

\* the nodes for which an executor has been called
ExecutedNodes == {tasks[t].arg : t \in {u \in Resolvers : tasks[u].req # Undef}}

\* the document is an evaluate expression with lazy true
LazyDoc == OperationOf(doc) = "evaluate" /\ GetKey(doc, <<"lazy">>) = True

\* the nodes that the code of the document has get walk over
WalkedByGet ==
    LET code == GetKey(doc, <<"code">>).s
        bindings == Bindings(GetKey(doc, <<"params">>)) IN
    IF CallsGet(code, bindings) THEN Walked(GetKey(bindings, <<code[2]>>), GetPath(code))
    ELSE {}

\* the evaluate executors whose code has started to run after its params
\* were resolved
CodeStarted ==
    {x \in 1..Len(tasks) : /\ tasks[x].fn = "evaluate"
                           /\ tasks[x].pc = "get" \/ tasks[x].st = "ok"
                           /\ x < Len(tasks)
                           /\ tasks[x + 1].arg = GetKey(tasks[x].g, <<"params">>)
                           /\ GetKey(tasks[x].g, <<"lazy">>) # True}

\* an evaluate whose lazy is not true runs its code only after params has
\* been resolved in depth
EagerParamsResolved ==
    \A x \in CodeStarted :
        /\ tasks[x + 1].deep /\ tasks[x + 1].st = "ok"
        /\ ~HasExpression(tasks[x + 1].res)
        /\ \A u \in Resolvers :
              tasks[u].arg \in Sub(GetKey(tasks[x].g, <<"params">>)) => tasks[u].st = "ok"

\* C21 as stated: with lazy false or absent the code runs after every
\* expression of params is resolved, and with lazy true an expression of
\* params is executed only when get walks over it.
LazyOnlyThroughGet ==
    /\ EagerParamsResolved
    /\ LazyDoc => ExecutedNodes \subseteq ({doc} \cup WalkedByGet)

\* C21, amended: with lazy true an expression of params is executed only
\* when get walks over it or when it is part of the value the code returns,
\* which the resolver goes on to resolve.
LazyOnDemand ==
    /\ EagerParamsResolved
    /\ LazyDoc => ExecutedNodes \subseteq
                     ({doc} \cup WalkedByGet
                      \cup (IF tasks[1].got THEN Sub(tasks[1].rcv) ELSE {}))

\* A lazy document has been printed whose code walked a path of two keys
\* into a parsed binding: of the three commands in params only the one at
\* the end of the path has run.
LazyOnDemandWitness ==
    /\ LazyDoc
    /\ pstatus = "printed"
    /\ GetKey(doc, <<"code">>) = Text(<<"get(", "x", ",[", "a", "b", "])">>)
    /\ isExpression(GetKey(GetKey(doc, <<"params">>), <<"x">>))
    /\ output = Text(<<"x", "\n">>)
    /\ Len(procs) = 1 /\ procs[1].exe = Str("echo")


\* every entry of the cache is kept as it is by the step
CacheKept == \A h \in DOMAIN cache : h \in DOMAIN cache' /\ cache'[h] = cache[h]

\* every request for a fingerprint awaits the promise stored for it, whose
\* producer ran once; a request that has ended has the result or the failure
\* of that promise
CacheShared ==
    \A t \in Requests("execute") :
        LET h == hashExpression(tasks[t].req) IN
        /\ h \in DOMAIN cache
        /\ tasks[cache[h]].fn = "execute"
        /\ runs[h] = 1
        /\ tasks[t].pc = "exec" => tasks[t].kids = <<cache[h]>>
        /\ tasks[t].got => (tasks[cache[h]].st = "ok" /\ tasks[t].rcv = tasks[cache[h]].res)
        /\ (tasks[t].st = "err" /\ ~tasks[t].got)
              => (tasks[cache[h]].st = "err" /\ tasks[t].err = tasks[cache[h]].err)

\* C22: an entry of the cache is never removed or replaced, every request
\* for its fingerprint gets the promise stored, and a failure of the
\* producer is the stored result that every request observes, the producer
\* having run once.
CacheEntriesStable == [][CacheKept]_vars /\ []CacheShared

\* Two requests for one fingerprint have both failed with the failure of the
\* one producer, a reference to a name that params does not have.
CacheEntriesStableWitness ==
    \E t, u \in Requests("execute") :
        /\ t # u
        /\ hashExpression(tasks[t].req) = hashExpression(tasks[u].req)
        /\ tasks[t].st = "err" /\ tasks[u].st = "err"
        /\ tasks[t].err = tasks[u].err
        /\ tasks[t].err[1] = "missing input"
        /\ runs[hashExpression(tasks[t].req)] = 1
        /\ procs = <<>>


\* the document is a sequence or a mapping of execute expressions whose own
\* fields hold no expression
SiblingExecutes ==
    /\ doc.t \in {"arr", "obj"} /\ ~isExpression(doc)
    /\ Len(Items(doc)) >= 2
    /\ \A i \in 1..Len(Items(doc)) :
          /\ OperationOf(Items(doc)[i]) = "execute"
          /\ \A k \in 1..Len(Items(doc)[i].fields) :
                ~HasExpression(Items(doc)[i].fields[k][2])

\* C23: in a sequence or mapping of execute expressions, every sibling has
\* been started and has called its executor before the child of any of them
\* has exited: each fingerprint has its child or its failure while the
\* children of the others still run.
SiblingFanOut ==
    (SiblingExecutes /\ pass = 1 /\ \E p \in 1..Len(procs) : procs[p].st = "exited") =>
        /\ Cardinality({t \in Resolvers : tasks[t].arg \in {Items(doc)[i] : i \in 1..Len(Items(doc))}})
              = Len(Items(doc))
        /\ \A t \in Resolvers :
              tasks[t].arg \in {Items(doc)[i] : i \in 1..Len(Items(doc))} =>
                  /\ tasks[t].req # Undef
                  /\ hashExpression(tasks[t].req) \in DOMAIN cache

\* The children of two siblings with different fingerprints are running at
\* the same time.
SiblingFanOutWitness ==
    /\ SiblingExecutes
    /\ \E p, q \in 1..Len(procs) :
          /\ procs[p].h # procs[q].h
          /\ procs[p].st = "running" /\ procs[q].st = "running"


\* the executable that the expression e names cannot be started: it is no
\* string, or none of the executables of the environment
CannotStart(e) ==
    LET pa == prepareArgs(GetKey(e, <<"command">>), GetKey(e, <<"params">>)) IN
    /\ pa.ok /\ pa.val.items # <<>> /\ ~Falsy(pa.val.items[1])
    /\ \/ TypeOf(pa.val.items[1]) # "string"
       \/ pa.val.items[1].s \notin {<<x>> : x \in Executables}

\* C24: an execute expression whose executable cannot be started ends the
\* process through its executor, which prints `executable <name> not found`
\* and exits with 1: runCommand completes with that message, no exit code
\* is recorded for it, and the process ends in no other way.
LaunchFailureReported ==
    \A t \in Requests("execute") :
        CannotStart(tasks[t].req) =>
            LET x == tasks[cache[hashExpression(tasks[t].req)]] IN
            /\ x.pc = "notfound"
            /\ x.err[1] = "executable" /\ x.err[3] = "not found"
            /\ x.st = "run" /\ ~tasks[t].got
            /\ pstatus \in {"running", "launchfail"}

\* The same for the executables on which spawn throws: those that are no
\* strings.
LaunchFailureReportedWhenThrown ==
    \A t \in Requests("execute") :
        LET pa == prepareArgs(GetKey(tasks[t].req, <<"command">>),
                              GetKey(tasks[t].req, <<"params">>)) IN
        (CannotStart(tasks[t].req) /\ TypeOf(pa.val.items[1]) # "string") =>
            LET x == tasks[cache[hashExpression(tasks[t].req)]] IN
            /\ x.pc = "notfound"
            /\ x.err[1] = "executable" /\ x.err[3] = "not found"
            /\ x.st = "run" /\ ~tasks[t].got
            /\ tasks[t].arg = doc => pstatus \in {"running", "launchfail"}


\* Whether the discriminator of an expression node is one of the six
\* operation names.
NamesOperation(g) ==
    LET d == GetKey(g, <<"_glueson">>) IN
    d.t = "str" /\ Len(d.s) = 1 /\ d.s[1] \in Operations

\* the resolvers of the expression nodes whose discriminator is none of them
UnknownOperation ==
    {t \in Resolvers : isExpression(tasks[t].arg) /\ ~NamesOperation(tasks[t].arg)}

\* What the resolver of such a node may do: fail at its first step, without
\* a validator, without an executor, without a value.
FailsUnexecuted(t) ==
    /\ tasks[t].st # "ok"
    /\ tasks[t].req = Undef
    /\ tasks[t].kids = <<>>
    /\ tasks[t].pc # "rv" => tasks[t].st = "err"
    /\ pstatus \notin {"printed", "exited"}

\* C25: an expression node whose discriminator is not one of evaluate,
\* execute, get, parse, serialize, temporary-file, names inherited from the
\* object prototype included, makes the resolution fail: no validator and no
\* executor runs for the node, no value takes its place and no document is
\* printed.
UnknownOperationFails == \A t \in UnknownOperation : FailsUnexecuted(t)

\* The same for the discriminators that are strings: a name parsers does not
\* hold, or holds only by inheritance, fails unexecuted.
UnknownNameFails ==
    \A t \in UnknownOperation :
        GetKey(tasks[t].arg, <<"_glueson">>).t = "str" => FailsUnexecuted(t)


\* the executors whose child reads its input to the end and whose stdin is
\* absent or is a value that a condition takes as false
Starved ==
    {x \in Spawners : /\ procs[tasks[x].proc].exe = Str("cat")
                      /\ Falsy(GetKey(tasks[x].g, <<"stdin">>))}

DefaultOf(name) ==
    CASE name = "params" -> Obj(<<>>)
      [] name = "stdin" -> Text(<<>>)
      [] name = "log" -> False
      [] name = "env" -> Obj(<<>>)
      [] OTHER -> Undef

\* the value a field stands for: itself when it holds no expression, what a
\* serialize or a get of such a value yields, and for an absent or null
\* field its default
Denotes(v, name) ==
    LET r == IF ~isExpression(v) THEN v
             ELSE IF OperationOf(v) = "serialize" /\ ~HasExpression(GetKey(v, <<"input">>))
                  THEN executeSerializeExpression(v).val
             ELSE IF OperationOf(v) = "get" /\ ~HasExpression(GetKey(v, <<"input">>))
                                           /\ GetKey(v, <<"path">>).t = "str"
                  THEN executeGetExpression(v).val
             ELSE v IN
    IF r.t \in {"undef", "null"} THEN DefaultOf(name) ELSE r

\* what an execute expression asks for, field by field
Meaning(g) ==
    [name \in {"command", "params", "stdin", "log", "env"} |->
        Denotes(GetKey(g, <<name>>), name)]

\* two execute expressions that ask for the same: they differ at most in
\* omitting a field or giving its default, in fields the validator does not
\* read, and in whether a field is a literal or an expression yielding it
SameMeaning(a, b) ==
    /\ NamesOperation(a) /\ OperationOf(a) = "execute"
    /\ NamesOperation(b) /\ OperationOf(b) = "execute"
    /\ \A name \in DOMAIN Meaning(a) : ~HasExpression(Meaning(a)[name])
    /\ Meaning(a) = Meaning(b)

\* C27: the fingerprint is taken of the validated expression, so execute
\* expressions that differ only in omitting a field or giving its default, in
\* unrecognised fields, or in a field being a literal or a nested expression
\* of equal value have one fingerprint, one cache entry, one call of the
\* executor and at most one child between them.
DefaultsShareEntry ==
    \A t, u \in Requests("execute") :
        SameMeaning(tasks[t].arg, tasks[u].arg) =>
            LET h == hashExpression(tasks[t].req) IN
            /\ hashExpression(tasks[u].req) = h
            /\ h \in DOMAIN cache
            /\ runs[h] = 1
            /\ Cardinality(SpawnsOf(h)) <= 1

\* Four occurrences of one command, written plainly, with every default
\* spelled out, with an unrecognised field and with a nested expression for
\* the command, have all received the output of the one child spawned.
DefaultsShareEntryWitness ==
    /\ doc.t = "arr" /\ Len(doc.items) = 4
    /\ Cardinality({tasks[t].arg : t \in Requests("execute")}) = 4
    /\ \A t, u \in Requests("execute") :
          tasks[t].got /\ SameMeaning(tasks[t].arg, tasks[u].arg)
    /\ Len(procs) = 1 /\ procs[1].st = "exited"


RECURSIVE OnlyParseSerializeGet(_)
\* every expression node of the value is a parse, a serialize or a get
OnlyParseSerializeGet(v) ==
    CASE v.t = "arr" -> \A i \in 1..Len(v.items) : OnlyParseSerializeGet(v.items[i])
      [] v.t = "obj" ->
            /\ isExpression(v) =>
                  NamesOperation(v) /\ OperationOf(v) \in {"parse", "serialize", "get"}
            /\ \A i \in 1..Len(v.fields) : OnlyParseSerializeGet(v.fields[i][2])
      [] OTHER -> TRUE

RECURSIVE TextsOnlyParseSerializeGet(_)
\* the same for the values that the strings of the value are the JSON texts
\* of, at any depth of quotation
TextsOnlyParseSerializeGet(v) ==
    CASE v.t = "arr" -> \A i \in 1..Len(v.items) : TextsOnlyParseSerializeGet(v.items[i])
      [] v.t = "obj" -> \A i \in 1..Len(v.fields) : TextsOnlyParseSerializeGet(v.fields[i][2])
      [] v.t = "str" ->
            IF JsonParse(v.s).ok
            THEN /\ OnlyParseSerializeGet(JsonParse(v.s).val)
                 /\ TextsOnlyParseSerializeGet(JsonParse(v.s).val)
            ELSE TRUE
      [] OTHER -> TRUE

\* resolveGlueson of the document has returned a value or thrown
Returns == tasks[1].st \in {"ok", "err"}

RECURSIVE NodeCount(_)
\* the number of expression nodes of a value and of the values its strings
\* are the JSON texts of
NodeCount(v) ==
    LET RECURSIVE Sum(_, _)
        Sum(xs, i) == IF i > Len(xs) THEN 0 ELSE NodeCount(xs[i]) + Sum(xs, i + 1) IN
    CASE v.t = "arr" -> Sum(v.items, 1)
      [] v.t = "obj" ->
            (IF isExpression(v) THEN 1 ELSE 0)
                + Sum([i \in 1..Len(v.fields) |-> v.fields[i][2]], 1)
      [] v.t = "str" -> IF JsonParse(v.s).ok THEN NodeCount(JsonParse(v.s).val) ELSE 0
      [] OTHER -> 0

RECURSIVE RunsOf(_)
\* the number of calls of executors made for the fingerprints hs
RunsOf(hs) ==
    IF hs = {} THEN 0
    ELSE LET h == CHOOSE x \in hs : TRUE IN runs[h] + RunsOf(hs \ {h})

\* What only grows as the program runs: the calls made, the promises
\* settled, the executors called, the children ended, the files written.
Done ==
    Len(tasks) + SettledCount + RunsOf(DOMAIN runs)
        + Cardinality({p \in 1..Len(procs) : procs[p].st # "running"})
        + Cardinality(tempFiles)
        + (IF pstatus = "running" THEN 0 ELSE 1)

\* Something is left to happen: a continuation is ready, or a child runs that
\* will exit on its own or fail to start, or a write is under way.
Due ==
    \/ \E t \in 1..Len(tasks) : LocalReady(t) \/ VisibleReady(t)
    \/ \E p \in 1..Len(procs) :
          /\ procs[p].st = "running"
          /\ ~(procs[p].exe = Str("cat") /\ ~procs[p].closed)
    \/ \E t \in 1..Len(tasks) : tasks[t].fn = "tempfile" /\ tasks[t].st = "run"

\* every step before resolveGlueson returns adds to what is done
Advances == ~Returns => Done' > Done

\* before resolveGlueson returns, no more executors have been called than
\* the document and its texts have expression nodes, and something is due
Bounded == ~Returns => (RunsOf(DOMAIN runs) <= NodeCount(doc) /\ Due)

FieldNames ==
    IF OperationOf(doc) = "execute" THEN <<"command", "params", "stdin", "log", "env">>
    ELSE <<"code", "lazy", "params">>
Raw(j) == GetKey(doc, <<FieldNames[j]>>)
Suspends(j) ==
    IF OperationOf(doc) = "evaluate" /\ FieldNames[j] = "params" THEN isExpression(Raw(j))
    ELSE ~IsPrimitive(Raw(j))

\* the fields that need resolving are different values with no expression
\* node in common, so that a call is the call of one field
FieldsApart ==
    /\ NamesOperation(doc) /\ OperationOf(doc) \in {"execute", "evaluate"}
    /\ \A j, k \in 1..Len(FieldNames) :
          (j # k /\ Suspends(j) /\ Suspends(k)) =>
              (Raw(j) # Raw(k) /\ Sub(Raw(j)) \cap Sub(Raw(k)) = {})

\* the calls that resolve field j for the validator
FieldTasks(j) == {t \in Resolvers : t > 2 /\ tasks[t].arg = Raw(j)}

\* field j is being resolved or has been, or an expression in it was executed
Started(j) ==
    \/ Suspends(j) /\ FieldTasks(j) # {}
    \/ ExecutedNodes \cap Sub(Raw(j)) # {}

\* field i has been resolved and has passed its check
Passed(i) ==
    IF Suspends(i)
    THEN \E t \in FieldTasks(i) :
            /\ tasks[t].st = "ok"
            /\ FieldError(OperationOf(doc), FieldNames[i], tasks[t].res) = <<>>
    ELSE FieldError(OperationOf(doc), FieldNames[i], Raw(i)) = <<>>

\* C29: the validator of an expression resolves its fields one after the
\* other, in the order command, params, stdin, log, env for execute and code,
\* lazy, params for evaluate, and checks each as soon as it is resolved: the
\* resolution of a field starts only when every field before it has been
\* resolved and has passed its check, so no expression in a field that comes
\* after a failed one is executed.
FieldsInOrder ==
    (FieldsApart /\ pass = 1) =>
        \A j \in 1..Len(FieldNames) :
            Started(j) => \A i \in 1..(j - 1) : Passed(i)

\* The command of an execute expression resolved to a number: the validator
\* has thrown, the process has ended with the error, and the expressions in
\* params and stdin were never executed.
FieldsInOrderWitness ==
    /\ FieldsApart /\ OperationOf(doc) = "execute"
    /\ Suspends(1) /\ Sub(Raw(2)) # {} /\ Sub(Raw(3)) # {}
    /\ Len(tasks) >= 2
    /\ tasks[2].fn = "parser" /\ tasks[2].st = "err"
    /\ tasks[2].err = <<"command must be a string">>
    /\ ~Started(2) /\ ~Started(3)
    /\ procs = <<>>
    /\ pstatus = "crashed"

====
